---- MODULE Spec2Model ----
(***************************************************************************)
(* Tag-aware caching (tagemup): TagSet, the JSON serializer hook of the    *)
(* Driver contract, and the Memory, Redis and Memcached drivers.           *)
(***************************************************************************)
EXTENDS Integers, Sequences, FiniteSets, TLC

(***************************************************************************)
(* Bounds of the model.                                                    *)
(***************************************************************************)
MaxTtl == 2
MaxTicks == 3
MaxRoster == 2
MaxTagRoster == 1
MaxNum == 3

(***************************************************************************)
(* JavaScript values.  Every value is a record of one shape:               *)
(*   t  the type of the value before any JSON.stringify                    *)
(*   n  the number, s the text / object label, a the array elements        *)
(*   d  how many times JSON.stringify was applied: d > 0 is a string       *)
(*      holding JSON text, d = 0 is the value itself.                      *)
(***************************************************************************)
JsValue(t, n, s, a) == [t |-> t, n |-> n, s |-> s, a |-> a, d |-> 0]
Undefined == JsValue("undefined", 0, "", <<>>)
Null == JsValue("null", 0, "", <<>>)
NaN == JsValue("NaN", 0, "", <<>>)
Num(n) == JsValue("number", n, "", <<>>)
Str(s) == JsValue("string", 0, s, <<>>)
Obj(s) == JsValue("object", 0, s, <<>>)
Arr(a) == JsValue("array", 0, "", a)
SyntaxError == JsValue("SyntaxError", 0, "", <<>>)
Bool(b) == JsValue("boolean", 0, IF b THEN "true" ELSE "false", <<>>)

\* typeof value
TypeOf(v) ==
    IF v.d > 0 THEN "string"
    ELSE CASE v.t = "NaN" -> "number"
           [] v.t = "null" -> "object"
           [] v.t = "array" -> "object"
           [] OTHER -> v.t

\* !!value
Truthy(v) ==
    IF v.d > 0 THEN TRUE
    ELSE CASE v.t = "undefined" -> FALSE
           [] v.t = "null" -> FALSE
           [] v.t = "NaN" -> FALSE
           [] v.t = "number" -> v.n # 0
           [] v.t = "string" -> v.s # ""
           [] v.t = "boolean" -> v.s = "true"
           [] OTHER -> TRUE

\* Array.isArray(value)
IsArray(v) == v.d = 0 /\ v.t = "array"

\* value == undefined (loose equality: undefined and null)
LooseUndefined(v) == v.d = 0 /\ v.t \in {"undefined", "null"}

\* Number.isNaN(value): true of the number NaN only
NumberIsNaN(v) == v.d = 0 /\ v.t = "NaN"

\* JSON.stringify(value): NaN is written as null
JsonStringify(v) ==
    IF v.d = 0 /\ v.t = "NaN" THEN [Null EXCEPT !.d = 1]
    ELSE [v EXCEPT !.d = @ + 1]

\* JSON.parse(text): text that is no JSON text throws
JsonParse(v) ==
    IF v.d > 0 THEN [v EXCEPT !.d = @ - 1] ELSE SyntaxError

\* String(value), as used by the + operator on a non-number operand
ToStr(v) ==
    IF v.d > 0 THEN "json"
    ELSE CASE v.t = "string" -> v.s
           [] v.t = "number" -> ToString(v.n)
           [] v.t = "boolean" -> v.s
           [] v.t = "object" -> "[object Object]"
           [] v.t = "array" -> "array"
           [] OTHER -> v.t

\* value + amount, amount a number
JsAdd(v, amount) ==
    IF v.d = 0 /\ v.t = "number" THEN Num(v.n + amount)
    ELSE IF v.d = 0 /\ v.t = "null" THEN Num(amount)
    ELSE IF v.d = 0 /\ v.t = "boolean" THEN Num((IF v.s = "true" THEN 1 ELSE 0) + amount)
    ELSE IF v.d = 0 /\ v.t \in {"NaN", "undefined"} THEN NaN
    ELSE Str(ToStr(v) \o ToString(amount))

\* value - amount, amount a number
JsSub(v, amount) ==
    IF v.d = 0 /\ v.t = "number" THEN Num(v.n - amount)
    ELSE IF v.d = 0 /\ v.t = "null" THEN Num(0 - amount)
    ELSE IF v.d = 0 /\ v.t = "boolean" THEN Num((IF v.s = "true" THEN 1 ELSE 0) - amount)
    ELSE NaN

(***************************************************************************)
(* JsonSerializer behind Driver.serialize / Driver.deserialize.            *)
(***************************************************************************)
serialize(value) ==
    IF value # Undefined THEN JsonStringify(value) ELSE value

deserialize(value) ==
    IF TypeOf(value) = "string" THEN JsonParse(value) ELSE value

(***************************************************************************)
(* TagSet.                                                                 *)
(***************************************************************************)
RECURSIVE Join(_, _)
Join(seq, sep) ==
    IF Len(seq) = 0 THEN ""
    ELSE IF Len(seq) = 1 THEN seq[1]
    ELSE seq[1] \o sep \o Join(Tail(seq), sep)

\* crypto sha1 hex digest, modelled as collision-free
Sha1(text) == "sha1(" \o text \o ")"

TagSet(names) ==
    LET keys == [i \in 1..Len(names) |-> "tags:" \o names[i]]
        namespace == Join(keys, "|")
    IN  [isTagSet |-> TRUE, names |-> names, keys |-> keys,
         namespace |-> namespace, hash |-> Sha1(namespace)]

\* the tagset argument left out by the caller
NoTagSet ==
    [isTagSet |-> FALSE, names |-> <<>>, keys |-> <<>>,
     namespace |-> "", hash |-> ""]

\* mutant: the reference is the key itself
ref_IgnoresHash(tagset, key) == key

ref(tagset, key) == tagset.hash \o ":" \o key

\* the storage key an operation resolves: ref(key) under a TagSet
Resolve(key, tagset) == IF tagset.isTagSet THEN ref(tagset, key) ELSE key

(***************************************************************************)
(* JavaScript objects used as maps: a missing property reads undefined.    *)
(***************************************************************************)
EmptyMap == [x \in {} |-> Undefined]
Lookup(m, k) == IF k \in DOMAIN m THEN m[k] ELSE Undefined
Assign(m, k, v) == [x \in DOMAIN m \cup {k} |-> IF x = k THEN v ELSE m[x]]
Delete(m, k) == [x \in DOMAIN m \ {k} |-> m[x]]

RECURSIVE DeleteAll(_, _)
DeleteAll(m, ks) ==
    IF Len(ks) = 0 THEN m ELSE DeleteAll(Delete(m, ks[1]), Tail(ks))

\* Array.prototype.indexOf(x) >= 0
Includes(seq, x) == \E i \in 1..Len(seq) : seq[i] = x
\* Array.prototype.indexOf / findIndex, 1-based, 0 when missing
IndexOf(seq, x) ==
    IF Includes(seq, x)
    THEN CHOOSE i \in 1..Len(seq) :
            seq[i] = x /\ \A j \in 1..(i - 1) : seq[j] # x
    ELSE 0
\* Array.prototype.splice(i, 1), 1-based
Splice(seq, i) == [j \in 1..(Len(seq) - 1) |-> IF j < i THEN seq[j] ELSE seq[j + 1]]

(***************************************************************************)
(* State.                                                                  *)
(*   backend   the driver variant selected at construction                 *)
(*   memory, ttl, timer   MemoryDriver: value/index map, TTL roster and    *)
(*             whether the sweep interval is installed                     *)
(*   memcached the keys held by the memcached server behind this.memcached *)
(*   redis     the keys held by the redis server behind this.redis         *)
(*   call, ret the last operation invoked and what its promise settled to  *)
(*   written   observer: per storage key, the last put/forever of that key *)
(*             not followed by a forget, flush or other write, and the     *)
(*             number of sweep ticks since                                 *)
(*   history   observer: whether every write so far was a tag-scoped put   *)
(*             under one TagSet, and the names of that TagSet              *)
(*   inflight  per caller, the handler it has invoked that has not settled *)
(*             yet: its arguments, what its backend commands replied so    *)
(*             far and the command it issues next                          *)
(*   disposed  MemoryDriver: whether dispose has deleted this.memory,      *)
(*             this.ttl and this.timer                                     *)
(*   invoked   how many times the last call of the Cache facade invoked    *)
(*             the function its caller passed (fallback, func)             *)
(*   issued    the backend commands the last call on a backend that may    *)
(*             report errors has issued, in order, and which of them       *)
(*             reported an error                                           *)
(***************************************************************************)
VARIABLES backend, memory, ttl, timer, memcached, redis, call, ret, written, history,
          inflight, disposed, invoked, issued

vars == <<backend, memory, ttl, timer, memcached, redis, call, ret, written, history,
          inflight, disposed, invoked, issued>>
memoryVars == <<memory, ttl, timer>>
observers == <<written, history>>

Call(name, keys, value, t, amount, tagset) ==
    [name |-> name, keys |-> keys, value |-> value, ttl |-> t,
     amount |-> amount, tagset |-> tagset]
NoCall == Call("", <<>>, Undefined, 0, 0, NoTagSet)

\* the callers, and a caller with no handler running
Callers == {1, 2}
Flight(pc, key, value, t, amount, tagset, values, index) ==
    [pc |-> pc, key |-> key, value |-> value, ttl |-> t, amount |-> amount,
     tagset |-> tagset, values |-> values, index |-> index]
Idle == Flight("idle", "", Undefined, 0, 0, NoTagSet, <<>>, 0)
NoneInFlight == [c \in Callers |-> Idle]

\* a promise resolved with one value, with an array of values, or rejected
Resolved(v) == [ok |-> TRUE, val |-> v, vals |-> <<>>, err |-> ""]
ResolvedMany(vs) == [ok |-> TRUE, val |-> Undefined, vals |-> vs, err |-> ""]
Rejected(e) == [ok |-> FALSE, val |-> Undefined, vals |-> <<>>, err |-> e]

(***************************************************************************)
(* MemoryDriver.                                                           *)
(***************************************************************************)
\* mutant: after a removal the pass steps over the entry below the removed
\* one
RECURSIVE Memory_tick_from_SkipsBelow(_, _, _)
Memory_tick_from_SkipsBelow(mem, roster, i) ==
    IF i <= 0 THEN [memory |-> mem, ttl |-> roster]
    ELSE IF roster[i].ttl <= 0
         THEN Memory_tick_from_SkipsBelow(Delete(mem, roster[i].key), Splice(roster, i), i - 2)
         ELSE Memory_tick_from_SkipsBelow(mem, [roster EXCEPT ![i].ttl = @ - 1], i - 1)

\* mutant: an eviction also takes the evicted key out of every array held
\* in the value map
RECURSIVE Memory_tick_from_Cascades(_, _, _)
Memory_tick_from_Cascades(mem, roster, i) ==
    IF i = 0 THEN [memory |-> mem, ttl |-> roster]
    ELSE IF roster[i].ttl <= 0
         THEN LET m1 == Delete(mem, roster[i].key)
                  m2 == [x \in DOMAIN m1 |->
                            IF IsArray(m1[x])
                            THEN Arr(SelectSeq(m1[x].a, LAMBDA r : r # roster[i].key))
                            ELSE m1[x]]
              IN  Memory_tick_from_Cascades(m2, Splice(roster, i), i - 1)
         ELSE Memory_tick_from_Cascades(mem, [roster EXCEPT ![i].ttl = @ - 1], i - 1)

\* the sweep pass from roster position i (1-based) down to the first entry
RECURSIVE Memory_tick_from(_, _, _)
Memory_tick_from(mem, roster, i) ==
    IF i = 0 THEN [memory |-> mem, ttl |-> roster]
    ELSE IF roster[i].ttl <= 0
         THEN Memory_tick_from(Delete(mem, roster[i].key), Splice(roster, i), i - 1)
         ELSE Memory_tick_from(mem, [roster EXCEPT ![i].ttl = @ - 1], i - 1)

Memory_tick_result(mem, roster) == Memory_tick_from(mem, roster, Len(roster))

Memory_tick ==
    /\ backend = "memory"
    /\ timer
    /\ memory' = Memory_tick_result(memory, ttl).memory
    /\ ttl' = Memory_tick_result(memory, ttl).ttl
    /\ call' = Call("tick", <<>>, Undefined, 0, 0, NoTagSet)
    /\ ret' = Resolved(Undefined)
    /\ UNCHANGED <<backend, timer, memcached, redis>>

Memory_get_result(mem, key, tagset) ==
    deserialize(Lookup(mem, Resolve(key, tagset)))

Memory_get(key, tagset) ==
    /\ backend = "memory"
    /\ call' = Call("get", <<key>>, Undefined, 0, 0, tagset)
    /\ ret' = Resolved(Memory_get_result(memory, key, tagset))
    /\ UNCHANGED <<backend, memory, ttl, timer, memcached, redis>>

Memory_getMany_result(mem, keys, tagset) ==
    [i \in 1..Len(keys) |-> deserialize(Lookup(mem, Resolve(keys[i], tagset)))]

Memory_getMany(keys, tagset) ==
    /\ backend = "memory"
    /\ call' = Call("getMany", keys, Undefined, 0, 0, tagset)
    /\ ret' = ResolvedMany(Memory_getMany_result(memory, keys, tagset))
    /\ UNCHANGED <<backend, memory, ttl, timer, memcached, redis>>

\* mutant: the ref is appended without the membership check
RECURSIVE Memory_put_index_AlwaysAppends(_, _, _)
Memory_put_index_AlwaysAppends(mem, keys, r) ==
    IF Len(keys) = 0 THEN mem
    ELSE LET k == keys[1]
             m1 == IF ~Truthy(Lookup(mem, k)) THEN Assign(mem, k, Arr(<<>>)) ELSE mem
         IN  Memory_put_index_AlwaysAppends(
                 Assign(m1, k, Arr(Append(m1[k].a, r))), Tail(keys), r)

\* tagset.keys.forEach of put: create a missing index, append a missing ref
RECURSIVE Memory_put_index(_, _, _)
Memory_put_index(mem, keys, r) ==
    IF Len(keys) = 0 THEN mem
    ELSE LET k == keys[1]
             m1 == IF ~Truthy(Lookup(mem, k)) THEN Assign(mem, k, Arr(<<>>)) ELSE mem
             m2 == IF ~Includes(m1[k].a, r)
                   THEN Assign(m1, k, Arr(Append(m1[k].a, r)))
                   ELSE m1
         IN  Memory_put_index(m2, Tail(keys), r)

Memory_put_memory(mem, key, value, t, tagset) ==
    LET m1 == IF tagset.isTagSet
              THEN Memory_put_index(mem, tagset.keys, ref(tagset, key))
              ELSE mem
    IN  Assign(m1, Resolve(key, tagset), serialize(value))

Memory_put_ttl(roster, key, t, tagset) ==
    IF t # 0 THEN Append(roster, [key |-> Resolve(key, tagset), ttl |-> t])
    ELSE roster

Memory_put(key, value, t, tagset) ==
    /\ backend = "memory"
    /\ memory' = Memory_put_memory(memory, key, value, t, tagset)
    /\ ttl' = Memory_put_ttl(ttl, key, t, tagset)
    /\ call' = Call("put", <<key>>, value, t, 0, tagset)
    /\ ret' = Resolved(Undefined)
    /\ UNCHANGED <<backend, timer, memcached, redis>>

\* Promise.map(array, item => this.put(...)): one put per item, here in the
\* order given
RECURSIVE Memory_putMany_result(_, _, _, _, _)
Memory_putMany_result(mem, roster, array, t, tagset) ==
    IF Len(array) = 0 THEN [memory |-> mem, ttl |-> roster]
    ELSE Memory_putMany_result(
             Memory_put_memory(mem, array[1].key, array[1].value, t, tagset),
             Memory_put_ttl(roster, array[1].key, t, tagset),
             Tail(array), t, tagset)

\* the orders in which Promise.map may run the mapper over the items
Orders(array) ==
    {[i \in 1..Len(array) |-> array[p[i]]] :
        p \in {q \in [1..Len(array) -> 1..Len(array)] :
                  \A i, j \in 1..Len(array) : q[i] = q[j] => i = j}}

Memory_putMany(array, t, tagset) ==
    /\ backend = "memory"
    /\ \E order \in Orders(array) :
          /\ memory' = Memory_putMany_result(memory, ttl, order, t, tagset).memory
          /\ ttl' = Memory_putMany_result(memory, ttl, order, t, tagset).ttl
    /\ call' = Call("putMany", [i \in 1..Len(array) |-> array[i].key], Undefined, t, 0, tagset)
    /\ ret' = Resolved(Undefined)
    /\ UNCHANGED <<backend, timer, memcached, redis>>

\* forever hands put an already serialized value and no ttl
Memory_forever(key, value, tagset) ==
    /\ backend = "memory"
    /\ memory' = Memory_put_memory(memory, key, serialize(value), 0, tagset)
    /\ ttl' = Memory_put_ttl(ttl, key, 0, tagset)
    /\ call' = Call("forever", <<key>>, value, 0, 0, tagset)
    /\ ret' = Resolved(Undefined)
    /\ UNCHANGED <<backend, timer, memcached, redis>>

\* typeof value === undefined compares a type name with the value undefined
TypeofIsUndefinedValue(v) == Str(TypeOf(v)) = Undefined

Memory_increment_value(mem, key, tagset) ==
    LET value == deserialize(Lookup(mem, Resolve(key, tagset)))
    IN  IF TypeofIsUndefinedValue(value) THEN Num(0) ELSE value

\* mutant: the write drops the countdowns of the key, as a SET without EX
\* does on a server
Memory_increment_ttl_Drops(roster, key, tagset) ==
    SelectSeq(roster, LAMBDA e : e.key # Resolve(key, tagset))

\* increment and decrement assign this.memory[key] and leave this.ttl alone
Memory_increment_ttl(roster, key, tagset) == roster

Memory_increment(key, amount, tagset) ==
    LET value == Memory_increment_value(memory, key, tagset) IN
    /\ backend = "memory"
    /\ call' = Call("increment", <<key>>, Undefined, 0, amount, tagset)
    /\ IF TypeOf(value) = "number"
       THEN /\ memory' = Assign(memory, Resolve(key, tagset), serialize(JsAdd(value, amount)))
            /\ ret' = Resolved(JsAdd(value, amount))
       ELSE /\ memory' = memory
            /\ ret' = Rejected("cannot increase a non-number value")
    /\ ttl' = Memory_increment_ttl(ttl, key, tagset)
    /\ UNCHANGED <<backend, timer, memcached, redis>>

Memory_decrement(key, amount, tagset) ==
    LET value == Memory_increment_value(memory, key, tagset) IN
    /\ backend = "memory"
    /\ call' = Call("decrement", <<key>>, Undefined, 0, amount, tagset)
    /\ IF TypeOf(value) = "number"
       THEN /\ memory' = Assign(memory, Resolve(key, tagset), serialize(JsSub(value, amount)))
            /\ ret' = Resolved(JsSub(value, amount))
       ELSE /\ memory' = memory
            /\ ret' = Rejected("cannot decrease a non-number value")
    /\ ttl' = Memory_increment_ttl(ttl, key, tagset)
    /\ UNCHANGED <<backend, timer, memcached, redis>>

\* mutant: an index that loses its last reference is deleted
RECURSIVE Memory_forget_index_Prunes(_, _, _)
Memory_forget_index_Prunes(mem, keys, r) ==
    IF Len(keys) = 0 THEN mem
    ELSE LET k == keys[1]
             i == IF Truthy(Lookup(mem, k)) THEN IndexOf(mem[k].a, r) ELSE 0
             m1 == IF i = 0 THEN mem
                   ELSE IF Len(mem[k].a) = 1 THEN Delete(mem, k)
                   ELSE Assign(mem, k, Arr(Splice(mem[k].a, i)))
         IN  Memory_forget_index_Prunes(m1, Tail(keys), r)

\* tagset.keys.forEach of forget: splice the ref out of every existing index
RECURSIVE Memory_forget_index(_, _, _)
Memory_forget_index(mem, keys, r) ==
    IF Len(keys) = 0 THEN mem
    ELSE LET k == keys[1]
             i == IF Truthy(Lookup(mem, k)) THEN IndexOf(mem[k].a, r) ELSE 0
             m1 == IF i > 0 THEN Assign(mem, k, Arr(Splice(mem[k].a, i))) ELSE mem
         IN  Memory_forget_index(m1, Tail(keys), r)

Memory_forget_memory(mem, key, tagset) ==
    LET m1 == IF tagset.isTagSet
              THEN Memory_forget_index(mem, tagset.keys, ref(tagset, key))
              ELSE mem
    IN  Delete(m1, Resolve(key, tagset))

\* findIndex of the first roster entry of the key, then splice(index, 1)
Memory_forget_ttl(roster, key, tagset) ==
    LET index == IndexOf([i \in 1..Len(roster) |-> roster[i].key], Resolve(key, tagset))
    IN  IF index > 0 THEN Splice(roster, index) ELSE roster

Memory_forget(key, tagset) ==
    /\ backend = "memory"
    /\ memory' = Memory_forget_memory(memory, key, tagset)
    /\ ttl' = Memory_forget_ttl(ttl, key, tagset)
    /\ call' = Call("forget", <<key>>, Undefined, 0, 0, tagset)
    /\ ret' = Resolved(Undefined)
    /\ UNCHANGED <<backend, timer, memcached, redis>>

\* n runs of the sweep
RECURSIVE Memory_ticks(_, _, _)
Memory_ticks(mem, roster, n) ==
    IF n = 0 THEN [memory |-> mem, ttl |-> roster]
    ELSE LET after == Memory_tick_result(mem, roster)
         IN  Memory_ticks(after.memory, after.ttl, n - 1)

\* mutant: the index keys are deleted, the values they reference are kept
RECURSIVE Memory_flush_index_KeepsValues(_, _)
Memory_flush_index_KeepsValues(mem, keys) ==
    IF Len(keys) = 0 THEN mem
    ELSE Memory_flush_index_KeepsValues(Delete(mem, keys[1]), Tail(keys))

\* tagset.keys.forEach of flush: delete the referenced values, then the index
RECURSIVE Memory_flush_index(_, _)
Memory_flush_index(mem, keys) ==
    IF Len(keys) = 0 THEN mem
    ELSE LET k == keys[1]
             m1 == IF Truthy(Lookup(mem, k)) THEN DeleteAll(mem, mem[k].a) ELSE mem
         IN  Memory_flush_index(Delete(m1, k), Tail(keys))

\* mutant: the tagset is ignored and the whole map is discarded
Memory_flush_memory_IgnoresTagSet(mem, tagset) == EmptyMap

Memory_flush_memory(mem, tagset) ==
    IF tagset.isTagSet THEN Memory_flush_index(mem, tagset.keys) ELSE EmptyMap

\* mutant: the roster is kept
Memory_flush_ttl_KeepsRoster(roster, tagset) == roster

Memory_flush_ttl(roster, tagset) ==
    IF tagset.isTagSet THEN roster ELSE <<>>

Memory_flush(tagset) ==
    /\ backend = "memory"
    /\ memory' = Memory_flush_memory(memory, tagset)
    /\ ttl' = Memory_flush_ttl(ttl, tagset)
    /\ call' = Call("flush", <<>>, Undefined, 0, 0, tagset)
    /\ ret' = Resolved(Undefined)
    /\ UNCHANGED <<backend, timer, memcached, redis>>

\* clearInterval(handle): cancels the interval the handle names; a handle
\* that is undefined names none
ClearInterval(installed, handleDefined) ==
    IF handleDefined THEN FALSE ELSE installed

\* delete this.timer, then clearInterval(this.timer)
Memory_dispose_timer(installed) == ClearInterval(installed, FALSE)

\* this.memory and this.ttl are deleted: the variables keep no content
Memory_dispose ==
    /\ backend = "memory"
    /\ memory' = EmptyMap
    /\ ttl' = <<>>
    /\ disposed' = TRUE
    /\ timer' = Memory_dispose_timer(timer)
    /\ call' = Call("dispose", <<>>, Undefined, 0, 0, NoTagSet)
    /\ ret' = Resolved(Undefined)
    /\ UNCHANGED <<backend, memcached, redis>>

\* the interval fires on a disposed driver: this.ttl.length throws
Memory_tick_disposed ==
    /\ backend = "memory"
    /\ timer
    /\ disposed
    /\ call' = Call("tick", <<>>, Undefined, 0, 0, NoTagSet)
    /\ ret' = Rejected("TypeError: Cannot read property 'length' of undefined")
    /\ UNCHANGED <<backend, memory, ttl, timer, disposed, memcached, redis>>

Memory_has_result(mem, key, tagset) == Lookup(mem, Resolve(key, tagset)) # Undefined

Memory_has(key, tagset) ==
    /\ backend = "memory"
    /\ call' = Call("has", <<key>>, Undefined, 0, 0, tagset)
    /\ ret' = Resolved([t |-> "boolean", n |-> 0,
                        s |-> IF Memory_has_result(memory, key, tagset) THEN "true" ELSE "false",
                        a |-> <<>>, d |-> 0])
    /\ UNCHANGED <<backend, memory, ttl, timer, memcached, redis>>

(***************************************************************************)
(* A remote key-value server: every key holds a value and the seconds it   *)
(* has left to live (0: no expiration).  A missing key reads undefined.    *)
(***************************************************************************)
EmptyStore == [x \in {} |-> [val |-> Undefined, life |-> 0]]
StoreHas(store, key) == key \in DOMAIN store
StoreGet(store, key) == IF key \in DOMAIN store THEN store[key].val ELSE Undefined
StoreSet(store, key, val, life) ==
    [x \in DOMAIN store \cup {key} |->
        IF x = key THEN [val |-> val, life |-> life] ELSE store[x]]
StoreDel(store, key) == [x \in DOMAIN store \ {key} |-> store[x]]

RECURSIVE StoreDelAll(_, _)
StoreDelAll(store, keys) ==
    IF Len(keys) = 0 THEN store ELSE StoreDelAll(StoreDel(store, keys[1]), Tail(keys))

\* one second passes on the server
StoreElapse(store) ==
    [x \in {y \in DOMAIN store : store[y].life # 1} |->
        IF store[x].life = 0 THEN store[x]
        ELSE [store[x] EXCEPT !.life = @ - 1]]

\* the distinct elements of a sequence, in order of first occurrence
RECURSIVE Distinct(_)
Distinct(seq) ==
    IF Len(seq) = 0 THEN <<>>
    ELSE LET front == Distinct(SubSeq(seq, 1, Len(seq) - 1))
             x == seq[Len(seq)]
         IN  IF Includes(front, x) THEN front ELSE Append(front, x)

\* sequence without the elements equal to x
RECURSIVE Without(_, _)
Without(seq, x) ==
    IF Len(seq) = 0 THEN <<>>
    ELSE IF seq[1] = x THEN Without(Tail(seq), x)
    ELSE <<seq[1]>> \o Without(Tail(seq), x)

(***************************************************************************)
(* MemcachedDriver.  Each handler is run to completion, its backend        *)
(* commands in the order the promise chain issues them.                    *)
(***************************************************************************)
\* memcached.getMulti: an object holding the keys that were found only;
\* Object.keys(values) lists them in the order of the request
RECURSIVE Memcached_getMulti(_, _)
Memcached_getMulti(store, keys) ==
    IF Len(keys) = 0 THEN <<>>
    ELSE LET rest == Memcached_getMulti(store, Tail(keys))
         IN  IF StoreHas(store, keys[1])
             THEN <<keys[1]>> \o Without(rest, keys[1])
             ELSE rest

Memcached_get_result(store, key, tagset) ==
    deserialize(StoreGet(store, Resolve(key, tagset)))

Memcached_getMany_result(store, keys, tagset) ==
    LET found == Memcached_getMulti(store, [i \in 1..Len(keys) |-> Resolve(keys[i], tagset)])
    IN  [i \in 1..Len(found) |-> deserialize(StoreGet(store, found[i]))]

\* put without tagset: memcached.set(key, serialize(value), ttl)
Memcached_set(store, key, value, t) == StoreSet(store, key, serialize(value), t)

\* Promise.map of put over the values getMany found: the value at position
\* index is written back, with the reference added, under tagset.keys[index]
\* mutant: the index is read again from the server when it is written
Memcached_put_index_at_Rereads(store, values, index, tagset, r, t) ==
    LET value == deserialize(StoreGet(store, tagset.keys[index]))
        array == IF IsArray(value)
                 THEN Arr(Distinct(Append(value.a, r)))
                 ELSE Arr(<<r>>)
    IN  Memcached_set(store, tagset.keys[index], array, t)

\* the mapper of Promise.map at one position
Memcached_put_index_at(store, values, index, tagset, r, t) ==
    LET value == values[index]
        array == IF IsArray(value)
                 THEN Arr(Distinct(Append(value.a, r)))
                 ELSE Arr(<<r>>)
    IN  Memcached_set(store, tagset.keys[index], array, t)

RECURSIVE Memcached_put_index(_, _, _, _, _, _)
Memcached_put_index(store, values, index, tagset, r, t) ==
    IF index > Len(values) THEN store
    ELSE Memcached_put_index(
             Memcached_put_index_at(store, values, index, tagset, r, t),
             values, index + 1, tagset, r, t)

Memcached_put_store(store, key, value, t, tagset) ==
    IF tagset.isTagSet
    THEN LET values == Memcached_getMany_result(store, tagset.keys, NoTagSet)
             indexed == Memcached_put_index(store, values, 1, tagset, ref(tagset, key), t)
         IN  Memcached_set(indexed, ref(tagset, key), value, t)
    ELSE Memcached_set(store, key, value, t)

Memcached_put(key, value, t, tagset) ==
    /\ backend = "memcached"
    /\ memcached' = Memcached_put_store(memcached, key, value, t, tagset)
    /\ call' = Call("put", <<key>>, value, t, 0, tagset)
    /\ ret' = Resolved(Undefined)
    /\ UNCHANGED <<backend, memory, ttl, timer, redis>>

Memcached_forever(key, value, tagset) ==
    /\ backend = "memcached"
    /\ memcached' = Memcached_put_store(memcached, key, value, 0, tagset)
    /\ call' = Call("forever", <<key>>, value, 0, 0, tagset)
    /\ ret' = Resolved(Undefined)
    /\ UNCHANGED <<backend, memory, ttl, timer, redis>>

Memcached_get(key, tagset) ==
    /\ backend = "memcached"
    /\ call' = Call("get", <<key>>, Undefined, 0, 0, tagset)
    /\ ret' = Resolved(Memcached_get_result(memcached, key, tagset))
    /\ UNCHANGED <<backend, memory, ttl, timer, memcached, redis>>

Memcached_getMany(keys, tagset) ==
    /\ backend = "memcached"
    /\ call' = Call("getMany", keys, Undefined, 0, 0, tagset)
    /\ ret' = ResolvedMany(Memcached_getMany_result(memcached, keys, tagset))
    /\ UNCHANGED <<backend, memory, ttl, timer, memcached, redis>>

\* Promise.map of forget over the values getMany found
RECURSIVE Memcached_forget_index(_, _, _, _, _)
Memcached_forget_index(store, values, index, tagset, r) ==
    IF index > Len(values) THEN store
    ELSE LET value == values[index]
             rest == Without(Distinct(value.a), r)
             next == IF IsArray(value) /\ Len(rest) # 0
                     THEN Memcached_set(store, tagset.keys[index], Arr(rest), 0)
                     ELSE StoreDel(store, tagset.keys[index])
         IN  Memcached_forget_index(next, values, index + 1, tagset, r)

Memcached_forget_store(store, key, tagset) ==
    IF tagset.isTagSet
    THEN LET values == Memcached_getMany_result(store, tagset.keys, NoTagSet)
             indexed == Memcached_forget_index(store, values, 1, tagset, ref(tagset, key))
         IN  StoreDel(indexed, ref(tagset, key))
    ELSE StoreDel(store, key)

Memcached_forget(key, tagset) ==
    /\ backend = "memcached"
    /\ memcached' = Memcached_forget_store(memcached, key, tagset)
    /\ call' = Call("forget", <<key>>, Undefined, 0, 0, tagset)
    /\ ret' = Resolved(Undefined)
    /\ UNCHANGED <<backend, memory, ttl, timer, redis>>

\* Promise.map of flush over the values getMany found: forget
\* tagset.keys[index] and every key the value at that position lists
RECURSIVE Memcached_flush_index(_, _, _, _)
Memcached_flush_index(store, values, index, tagset) ==
    IF index > Len(values) THEN store
    ELSE LET value == values[index]
             s1 == StoreDel(store, tagset.keys[index])
             s2 == IF IsArray(value) THEN StoreDelAll(s1, value.a) ELSE s1
         IN  Memcached_flush_index(s2, values, index + 1, tagset)

Memcached_flush_store(store, tagset) ==
    IF tagset.isTagSet
    THEN Memcached_flush_index(
             store, Memcached_getMany_result(store, tagset.keys, NoTagSet), 1, tagset)
    ELSE EmptyStore

Memcached_flush(tagset) ==
    /\ backend = "memcached"
    /\ memcached' = Memcached_flush_store(memcached, tagset)
    /\ call' = Call("flush", <<>>, Undefined, 0, 0, tagset)
    /\ ret' = Resolved(Undefined)
    /\ UNCHANGED <<backend, memory, ttl, timer, redis>>

\* the value increment / decrement start from
Memcached_increment_value(store, key, tagset) ==
    LET value == StoreGet(store, Resolve(key, tagset))
    IN  IF LooseUndefined(value) THEN Num(0) ELSE deserialize(value)

Memcached_increment(key, amount, tagset) ==
    LET value == Memcached_increment_value(memcached, key, tagset) IN
    /\ backend = "memcached"
    /\ call' = Call("increment", <<key>>, Undefined, 0, amount, tagset)
    /\ IF NumberIsNaN(value)
       THEN /\ memcached' = memcached
            /\ ret' = Rejected("cannont increase a non-number value")
       ELSE /\ memcached' = Memcached_set(memcached, Resolve(key, tagset), JsAdd(value, amount), 0)
            /\ ret' = Resolved(JsAdd(value, amount))
    /\ UNCHANGED <<backend, memory, ttl, timer, redis>>

Memcached_decrement(key, amount, tagset) ==
    LET value == Memcached_increment_value(memcached, key, tagset) IN
    /\ backend = "memcached"
    /\ call' = Call("decrement", <<key>>, Undefined, 0, amount, tagset)
    /\ IF NumberIsNaN(value)
       THEN /\ memcached' = memcached
            /\ ret' = Rejected("cannont decrease a non-number value")
       ELSE /\ memcached' = Memcached_set(memcached, Resolve(key, tagset), JsSub(value, amount), 0)
            /\ ret' = Resolved(JsSub(value, amount))
    /\ UNCHANGED <<backend, memory, ttl, timer, redis>>

Memcached_has_result(store, key, tagset) ==
    StoreGet(store, Resolve(key, tagset)) # Undefined

\* put under a TagSet, command by command.  First the getMulti of getMany:
\* the caller keeps the values it replied
Memcached_put_getMany(c, key, value, t, tagset) ==
    /\ backend = "memcached"
    /\ tagset.isTagSet
    /\ inflight[c].pc = "idle"
    /\ inflight' = [inflight EXCEPT ![c] =
            Flight("put.map", key, value, t, 0, tagset,
                   Memcached_getMany_result(memcached, tagset.keys, NoTagSet), 1)]
    /\ UNCHANGED <<backend, memory, ttl, timer, memcached, redis, call, ret>>

\* then one memcached.set per value kept, from the array read at the start
Memcached_put_map(c) ==
    LET f == inflight[c] IN
    /\ backend = "memcached"
    /\ f.pc = "put.map"
    /\ f.index <= Len(f.values)
    /\ memcached' = Memcached_put_index_at(memcached, f.values, f.index, f.tagset,
                                           ref(f.tagset, f.key), f.ttl)
    /\ inflight' = [inflight EXCEPT ![c].index = @ + 1]
    /\ UNCHANGED <<backend, memory, ttl, timer, redis, call, ret>>

\* then the memcached.set of the value at ref; the promise of put resolves
Memcached_put_ref(c) ==
    LET f == inflight[c] IN
    /\ backend = "memcached"
    /\ f.pc = "put.map"
    /\ f.index > Len(f.values)
    /\ memcached' = Memcached_set(memcached, ref(f.tagset, f.key), f.value, f.ttl)
    /\ inflight' = [inflight EXCEPT ![c].pc = "put.done"]
    /\ call' = Call("put", <<f.key>>, f.value, f.ttl, 0, f.tagset)
    /\ ret' = Resolved(Undefined)
    /\ UNCHANGED <<backend, memory, ttl, timer, redis>>

\* a second passes on the memcached server
Memcached_elapse ==
    /\ backend = "memcached"
    /\ memcached' = StoreElapse(memcached)
    /\ call' = Call("elapse", <<>>, Undefined, 0, 0, NoTagSet)
    /\ ret' = Resolved(Undefined)
    /\ UNCHANGED <<backend, memory, ttl, timer, redis>>

(***************************************************************************)
(* The redis server: a key holds a string (val) or a set (members), and    *)
(* the seconds it has left to live (0: no expiration).  A missing key      *)
(* replies null.                                                           *)
(***************************************************************************)
EmptyRedis == [x \in {} |-> [val |-> Null, life |-> 0, members |-> {}]]
RedisExists(store, key) == key \in DOMAIN store
\* GET
RedisGet(store, key) == IF key \in DOMAIN store THEN store[key].val ELSE Null
\* SET key value [EX seconds]
RedisSet(store, key, val, life) ==
    [x \in DOMAIN store \cup {key} |->
        IF x = key THEN [val |-> val, life |-> life, members |-> {}] ELSE store[x]]
\* SADD key member: creates the set, keeps the life of an existing one
RedisSAdd(store, key, member) ==
    [x \in DOMAIN store \cup {key} |->
        IF x = key
        THEN IF key \in DOMAIN store
             THEN [store[key] EXCEPT !.members = @ \cup {member}]
             ELSE [val |-> Null, life |-> 0, members |-> {member}]
        ELSE store[x]]

RECURSIVE RedisSAddAll(_, _, _)
RedisSAddAll(store, keys, member) ==
    IF Len(keys) = 0 THEN store
    ELSE RedisSAddAll(RedisSAdd(store, keys[1], member), Tail(keys), member)

(***************************************************************************)
(* RedisDriver.                                                            *)
(***************************************************************************)
Redis_get_result(store, key, tagset) ==
    deserialize(RedisGet(store, Resolve(key, tagset)))

Redis_get(key, tagset) ==
    /\ backend = "redis"
    /\ call' = Call("get", <<key>>, Undefined, 0, 0, tagset)
    /\ ret' = Resolved(Redis_get_result(redis, key, tagset))
    /\ UNCHANGED <<backend, memory, ttl, timer, memcached, redis>>

\* MGET replies one element per requested key, null for a missing key
Redis_getMany_result(store, keys, tagset) ==
    [i \in 1..Len(keys) |-> deserialize(RedisGet(store, Resolve(keys[i], tagset)))]

Redis_getMany(keys, tagset) ==
    /\ backend = "redis"
    /\ call' = Call("getMany", keys, Undefined, 0, 0, tagset)
    /\ ret' = ResolvedMany(Redis_getMany_result(redis, keys, tagset))
    /\ UNCHANGED <<backend, memory, ttl, timer, memcached, redis>>

\* SET key value EX ttl is refused by the server unless ttl is positive
Redis_set_ex(store, key, value, t) ==
    IF t > 0 THEN RedisSet(store, key, serialize(value), t) ELSE store

\* with a tagset: MULTI, SADD per index key, SET EX, EXEC; a command the
\* server refuses inside the transaction does not undo the others, and
\* exec reports no error
Redis_put_store(store, key, value, t, tagset) ==
    IF tagset.isTagSet
    THEN Redis_set_ex(RedisSAddAll(store, tagset.keys, ref(tagset, key)),
                      ref(tagset, key), value, t)
    ELSE Redis_set_ex(store, key, value, t)

Redis_put(key, value, t, tagset) ==
    /\ backend = "redis"
    /\ redis' = Redis_put_store(redis, key, value, t, tagset)
    /\ call' = Call("put", <<key>>, value, t, 0, tagset)
    /\ ret' = IF ~tagset.isTagSet /\ t <= 0
              THEN Rejected("ERR invalid expire time in set")
              ELSE Resolved(Undefined)
    /\ UNCHANGED <<backend, memory, ttl, timer, memcached>>

\* the value increment / decrement start from
Redis_increment_value(store, key, tagset) ==
    LET value == RedisGet(store, Resolve(key, tagset))
    IN  IF LooseUndefined(value) THEN Num(0) ELSE deserialize(value)

Redis_increment(key, amount, tagset) ==
    LET value == Redis_increment_value(redis, key, tagset) IN
    /\ backend = "redis"
    /\ call' = Call("increment", <<key>>, Undefined, 0, amount, tagset)
    /\ IF NumberIsNaN(value)
       THEN /\ redis' = redis
            /\ ret' = Rejected("cannont increase a non-number value")
       ELSE /\ redis' = RedisSet(redis, Resolve(key, tagset), serialize(JsAdd(value, amount)), 0)
            /\ ret' = Resolved(JsAdd(value, amount))
    /\ UNCHANGED <<backend, memory, ttl, timer, memcached>>

\* increment, command by command.  First the GET: the caller keeps the
\* number it starts from, or rejects
Redis_increment_get(c, key, amount, tagset) ==
    LET value == Redis_increment_value(redis, key, tagset) IN
    /\ backend = "redis"
    /\ inflight[c].pc = "idle"
    /\ IF NumberIsNaN(value)
       THEN /\ inflight' = [inflight EXCEPT ![c] =
                    Flight("increment.done", key, value, 0, amount, tagset, <<>>, 0)]
            /\ call' = Call("increment", <<key>>, Undefined, 0, amount, tagset)
            /\ ret' = Rejected("cannont increase a non-number value")
       ELSE /\ inflight' = [inflight EXCEPT ![c] =
                    Flight("increment.set", key, value, 0, amount, tagset, <<>>, 0)]
            /\ UNCHANGED <<call, ret>>
    /\ UNCHANGED <<backend, memory, ttl, timer, memcached, redis>>

\* mutant: the sum is taken from the value the server holds at the SET
Redis_increment_sum_Rereads(store, f) ==
    JsAdd(Redis_increment_value(store, f.key, f.tagset), f.amount)

\* value += amount, on the value the GET replied
Redis_increment_sum(store, f) == JsAdd(f.value, f.amount)

\* then the SET of the sum; the promise resolves with the sum
Redis_increment_set(c) ==
    LET f == inflight[c]
        sum == Redis_increment_sum(redis, f)
    IN  /\ backend = "redis"
        /\ f.pc = "increment.set"
        /\ redis' = RedisSet(redis, Resolve(f.key, f.tagset), serialize(sum), 0)
        /\ inflight' = [inflight EXCEPT ![c].pc = "increment.done",
                                        ![c].values = <<sum>>]
        /\ call' = Call("increment", <<f.key>>, Undefined, 0, f.amount, f.tagset)
        /\ ret' = Resolved(sum)
        /\ UNCHANGED <<backend, memory, ttl, timer, memcached>>

Redis_decrement(key, amount, tagset) ==
    LET value == Redis_increment_value(redis, key, tagset) IN
    /\ backend = "redis"
    /\ call' = Call("decrement", <<key>>, Undefined, 0, amount, tagset)
    /\ IF NumberIsNaN(value)
       THEN /\ redis' = redis
            /\ ret' = Rejected("cannont decrease a non-number value")
       ELSE /\ redis' = RedisSet(redis, Resolve(key, tagset), serialize(JsSub(value, amount)), 0)
            /\ ret' = Resolved(JsSub(value, amount))
    /\ UNCHANGED <<backend, memory, ttl, timer, memcached>>

\* EXISTS
Redis_has_result(store, key, tagset) == RedisExists(store, Resolve(key, tagset))

\* DEL key
RedisDel(store, key) == [x \in DOMAIN store \ {key} |-> store[x]]
\* DEL key [key ...]
RedisDelAll(store, keys) == [x \in DOMAIN store \ keys |-> store[x]]
\* SREM key member: a set that loses its last member is removed
RedisSRem(store, key, member) ==
    IF key \in DOMAIN store /\ member \in store[key].members
    THEN IF store[key].members = {member}
         THEN RedisDel(store, key)
         ELSE [store EXCEPT ![key].members = @ \ {member}]
    ELSE store

RECURSIVE RedisSRemAll(_, _, _)
RedisSRemAll(store, keys, member) ==
    IF Len(keys) = 0 THEN store
    ELSE RedisSRemAll(RedisSRem(store, keys[1], member), Tail(keys), member)

\* SUNION key [key ...]: a missing key counts as the empty set
RedisSUnion(store, keys) ==
    UNION {store[k].members : k \in {x \in DOMAIN store : Includes(keys, x)}}

\* one second passes on the server
RedisElapse(store) ==
    [x \in {y \in DOMAIN store : store[y].life # 1} |->
        IF store[x].life = 0 THEN store[x]
        ELSE [store[x] EXCEPT !.life = @ - 1]]

\* this.namespace || '': no namespace is configured
RedisNamespace == ""

\* with a tagset: MULTI, SADD per index key, SET without expiration, EXEC
Redis_forever_store(store, key, value, tagset) ==
    IF tagset.isTagSet
    THEN RedisSet(RedisSAddAll(store, tagset.keys, ref(tagset, key)),
                  ref(tagset, key), serialize(value), 0)
    ELSE RedisSet(store, key, serialize(value), 0)

Redis_forever(key, value, tagset) ==
    /\ backend = "redis"
    /\ redis' = Redis_forever_store(redis, key, value, tagset)
    /\ call' = Call("forever", <<key>>, value, 0, 0, tagset)
    /\ ret' = Resolved(Undefined)
    /\ UNCHANGED <<backend, memory, ttl, timer, memcached>>

\* one MULTI for all the items: per item the commands of put
RECURSIVE Redis_putMany_store(_, _, _, _)
Redis_putMany_store(store, array, t, tagset) ==
    IF Len(array) = 0 THEN store
    ELSE Redis_putMany_store(
             Redis_put_store(store, array[1].key, array[1].value, t, tagset),
             Tail(array), t, tagset)

Redis_putMany(array, t, tagset) ==
    /\ backend = "redis"
    /\ redis' = Redis_putMany_store(redis, array, t, tagset)
    /\ call' = Call("putMany", [i \in 1..Len(array) |-> array[i].key],
                    Undefined, t, 0, tagset)
    /\ ret' = Resolved(Undefined)
    /\ UNCHANGED <<backend, memory, ttl, timer, memcached>>

\* with a tagset: MULTI, SREM per index key, DEL ref, EXEC
Redis_forget_store(store, key, tagset) ==
    IF tagset.isTagSet
    THEN RedisDel(RedisSRemAll(store, tagset.keys, ref(tagset, key)),
                  ref(tagset, key))
    ELSE RedisDel(store, key)

Redis_forget(key, tagset) ==
    /\ backend = "redis"
    /\ redis' = Redis_forget_store(redis, key, tagset)
    /\ call' = Call("forget", <<key>>, Undefined, 0, 0, tagset)
    /\ ret' = Resolved(Undefined)
    /\ UNCHANGED <<backend, memory, ttl, timer, memcached>>

\* mutant: the script deletes the index keys only
Redis_flush_store_KeepsValues(store, tagset) ==
    IF tagset.isTagSet
    THEN RedisDelAll(store, {tagset.keys[i] : i \in 1..Len(tagset.keys)})
    ELSE EmptyRedis

\* with a tagset: the script deletes KEYS and ARGV[1]..ref for every member
\* of the union of the sets at KEYS; without: FLUSHALL
Redis_flush_store(store, tagset) ==
    IF tagset.isTagSet
    THEN RedisDelAll(store,
             {tagset.keys[i] : i \in 1..Len(tagset.keys)}
             \cup {RedisNamespace \o r : r \in RedisSUnion(store, tagset.keys)})
    ELSE EmptyRedis

Redis_flush(tagset) ==
    /\ backend = "redis"
    /\ redis' = Redis_flush_store(redis, tagset)
    /\ call' = Call("flush", <<>>, Undefined, 0, 0, tagset)
    /\ ret' = Resolved(Undefined)
    /\ UNCHANGED <<backend, memory, ttl, timer, memcached>>

\* a second passes on the redis server
Redis_elapse ==
    /\ backend = "redis"
    /\ redis' = RedisElapse(redis)
    /\ call' = Call("elapse", <<>>, Undefined, 0, 0, NoTagSet)
    /\ ret' = Resolved(Undefined)
    /\ UNCHANGED <<backend, memory, ttl, timer, memcached>>

(***************************************************************************)
(* Observer of the writes: what a caller who issued the operations knows.  *)
(***************************************************************************)
Write(value, t, tagset) ==
    [val |-> value, ttl |-> t, ticks |-> 0, names |-> tagset.names]
NothingWritten == [x \in {} |-> Write(Undefined, 0, NoTagSet)]

\* the two name sequences have a tag name in common
SharesName(names1, names2) ==
    \E i \in 1..Len(names1), j \in 1..Len(names2) : names1[i] = names2[j]

NoHistory == [pure |-> TRUE, names |-> <<>>]

\* after put / forever of a storage key
ObservePut(key, value, t, tagset) ==
    /\ history' = [pure |-> /\ history.pure
                            /\ tagset.isTagSet
                            /\ history.names \in {<<>>, tagset.names},
                   names |-> tagset.names]
    /\ written' = Assign(written, Resolve(key, tagset), Write(value, t, tagset))
\* after forget, increment or decrement of a storage key
ObserveDrop(key, tagset) ==
    /\ history' = [history EXCEPT !.pure = FALSE]
    /\ written' = [x \in DOMAIN written \ {Resolve(key, tagset)} |-> written[x]]
\* after flush: untagged, everything goes; tagged, the entries written under
\* a TagSet that shares a name with the flushed one
ObserveFlush(tagset) ==
    /\ history' = history
    /\ written' =
          IF tagset.isTagSet
          THEN [x \in {y \in DOMAIN written :
                          ~SharesName(written[y].names, tagset.names)}
                  |-> written[x]]
          ELSE NothingWritten
\* after a sweep tick
ObserveTick ==
    /\ history' = history
    /\ written' = [x \in DOMAIN written |-> [written[x] EXCEPT !.ticks = @ + 1]]
ObserveRead ==
    /\ history' = history
    /\ written' = written

(***************************************************************************)
(* Inputs.                                                                 *)
(***************************************************************************)
Keys == {"k1", "k2"}
TagA == TagSet(<<"A">>)
TagB == TagSet(<<"B">>)
TagAB == TagSet(<<"A", "B">>)
TagSets == {TagA, TagB, TagAB}
Values == {Num(1), Str("abc")}
Ttls == 0..MaxTtl

\* the sweep has run fewer than MaxTicks times since the oldest tracked write
TickAllowed == \A x \in DOMAIN written : written[x].ticks < MaxTicks

(***************************************************************************)
(* Spec: one MemoryDriver, one key, untagged or under one tag, with the    *)
(* sweep.                                                                  *)
(***************************************************************************)
SweepKeys == {"k1"}
SweepTagSets == {NoTagSet, TagA}

Init ==
    /\ backend = "memory"
    /\ memory = EmptyMap
    /\ ttl = <<>>
    /\ timer = TRUE
    /\ call = NoCall
    /\ ret = Resolved(Undefined)
    /\ memcached = EmptyStore
    /\ redis = EmptyRedis
    /\ written = NothingWritten
    /\ history = NoHistory
    /\ inflight = NoneInFlight
    /\ disposed = FALSE
    /\ invoked = 0
    /\ issued = <<>>

DoPut ==
    \E key \in SweepKeys, value \in Values, t \in Ttls, tagset \in SweepTagSets :
        /\ t # 0 => Len(ttl) < MaxRoster
        /\ Memory_put(key, value, t, tagset)
        /\ ObservePut(key, value, t, tagset)
        /\ UNCHANGED <<inflight, disposed, invoked, issued>>

DoForever ==
    \E key \in SweepKeys, value \in Values, tagset \in SweepTagSets :
        /\ Memory_forever(key, value, tagset)
        /\ ObservePut(key, value, 0, tagset)
        /\ UNCHANGED <<inflight, disposed, invoked, issued>>

DoForget ==
    \E key \in SweepKeys, tagset \in SweepTagSets :
        /\ Memory_forget(key, tagset)
        /\ ObserveDrop(key, tagset)
        /\ UNCHANGED <<inflight, disposed, invoked, issued>>

DoFlush ==
    \E tagset \in SweepTagSets :
        /\ Memory_flush(tagset)
        /\ ObserveFlush(tagset)
        /\ UNCHANGED <<inflight, disposed, invoked, issued>>

DoTick ==
    /\ TickAllowed
    /\ Memory_tick
    /\ ObserveTick
    /\ UNCHANGED <<inflight, disposed, invoked, issued>>

DoGet ==
    \E key \in SweepKeys, tagset \in SweepTagSets :
        /\ Memory_get(key, tagset)
        /\ ObserveRead
        /\ UNCHANGED <<inflight, disposed, invoked, issued>>

Next ==
    \/ DoPut
    \/ DoForever
    \/ DoForget
    \/ DoFlush
    \/ DoTick
    \/ DoGet

Spec == Init /\ [][Next]_vars

(***************************************************************************)
(* Claims on the sweep (Spec).                                             *)
(***************************************************************************)
\* what get resolves to for the entry at storage key x
Got(x) == Memory_get_result(memory, x, NoTagSet)

\* C1: after put(k, v, ttl) with ttl = N > 0 and no forget, flush or further
\* write of k since, get(k) returns v as long as fewer than N ticks have run
\* since that put, whatever was done to k before the put.
C1_RoundTripBeforeExpiry ==
    \A x \in DOMAIN written :
        (written[x].ttl > 0 /\ written[x].ticks < written[x].ttl)
            => Got(x) = written[x].val

\* C2: an entry put with TTL = N >= 1 is returned by get after each of the
\* first N-1 ticks following the put and is absent after the N-th tick and
\* after every later tick.
C2_ExpiresAtTickN ==
    \A x \in DOMAIN written :
        written[x].ttl >= 1 =>
            /\ written[x].ticks <= written[x].ttl - 1 => Got(x) = written[x].val
            /\ written[x].ticks >= written[x].ttl => Got(x) = Undefined

\* C3: an entry written by forever or by put without TTL, and not forgotten
\* or flushed since, is still stored after any number of ticks.
C3_NoTtlNeverSwept ==
    \A x \in DOMAIN written :
        written[x].ttl = 0 => Memory_has_result(memory, x, NoTagSet)

(***************************************************************************)
(* SpecTags: one MemoryDriver, one key stored under the TagSets over the   *)
(* names A and B, with the sweep.  The write observer is not used.         *)
(***************************************************************************)
TagKeys == {"k1"}
TagBA == TagSet(<<"B", "A">>)
TagTagSets == {TagA, TagB, TagAB, TagBA}
TagValues == {Num(1)}
TagTtls == {0, 1}

TagPut ==
    \E key \in TagKeys, value \in TagValues, t \in TagTtls, tagset \in TagTagSets :
        /\ t # 0 => Len(ttl) < MaxTagRoster
        /\ Memory_put(key, value, t, tagset)
        /\ UNCHANGED observers
        /\ UNCHANGED <<inflight, disposed, invoked, issued>>

TagForget ==
    \E key \in TagKeys, tagset \in TagTagSets :
        /\ Memory_forget(key, tagset)
        /\ UNCHANGED observers
        /\ UNCHANGED <<inflight, disposed, invoked, issued>>

TagFlush ==
    \E tagset \in TagTagSets \cup {NoTagSet} :
        /\ Memory_flush(tagset)
        /\ UNCHANGED observers
        /\ UNCHANGED <<inflight, disposed, invoked, issued>>

TagTick ==
    /\ ttl # <<>>
    /\ Memory_tick
    /\ UNCHANGED observers
    /\ UNCHANGED <<inflight, disposed, invoked, issued>>

NextTags ==
    \/ TagPut
    \/ TagForget
    \/ TagFlush
    \/ TagTick

SpecTags == Init /\ [][NextTags]_vars

(***************************************************************************)
(* Claims on tag-scoped flush of the MemoryDriver (SpecTags).              *)
(***************************************************************************)
\* the index arrays of the names of a TagSet
IndexesOf(mem, tagset) == [i \in 1..Len(tagset.keys) |-> Lookup(mem, tagset.keys[i])]

C7_FlushRemovesShared ==
    (call.name = "flush" /\ call.tagset.isTagSet) =>
        /\ \A T1 \in TagTagSets, key \in TagKeys :
              SharesName(call.tagset.names, T1.names)
                  => /\ Memory_get_result(memory, key, T1) = Undefined
                     /\ ~Memory_has_result(memory, key, T1)
        /\ \A i \in 1..Len(call.tagset.keys) :
              ~Memory_has_result(memory, call.tagset.keys[i], NoTagSet)

\* flush(A) has run; the entry put under <<A, B>> is gone, as the index of
\* B that still lists it shows, and the entry put under B alone is kept
C7_Witness ==
    /\ call.name = "flush"
    /\ call.tagset = TagA
    /\ Includes(Lookup(memory, "tags:B").a, ref(TagAB, "k1"))
    /\ ~Memory_has_result(memory, "k1", TagAB)
    /\ Memory_has_result(memory, "k1", TagB)
    /\ ~Memory_has_result(memory, "tags:A", NoTagSet)
    /\ ttl = <<>>

\* C18: a tag-scoped forget of the MemoryDriver deletes no tag index key:
\* every index of the TagSet that existed before the call exists after it
\* (has on the index key stays true), and an index that listed only the
\* forgotten reference holds the empty sequence.
C18_ForgetKeepsIndexKey ==
    [][(call'.name = "forget" /\ call'.tagset.isTagSet) =>
        \A i \in 1..Len(call'.tagset.keys) :
            LET k == call'.tagset.keys[i] IN
            Memory_has_result(memory, k, NoTagSet) =>
                /\ Memory_has_result(memory', k, NoTagSet)
                /\ (memory[k] = Arr(<<ref(call'.tagset, call'.keys[1])>>)
                        => memory'[k] = Arr(<<>>))
      ]_vars

\* forget of k1 under A has emptied the index of A, which is still there
C18_Witness ==
    /\ call.name = "forget"
    /\ call.keys = <<"k1">>
    /\ call.tagset = TagA
    /\ Memory_has_result(memory, "tags:A", NoTagSet)
    /\ Lookup(memory, "tags:A") = Arr(<<>>)

(***************************************************************************)
(* SpecMemcached: one MemcachedDriver, its operations called one after the *)
(* other.  Besides the cache keys, callers may store arrays under the keys *)
(* "tags:A" and "tags:B" directly.                                         *)
(***************************************************************************)
McKeys == Keys
McTagSets == {TagA, TagAB}
McValues == {Num(1)}
McTtls == {0, 1}
McIndexKeys == {"tags:A", "tags:B"}
McArrays == {Arr(<<>>)}

InitMemcached ==
    /\ backend = "memcached"
    /\ memory = EmptyMap
    /\ ttl = <<>>
    /\ timer = FALSE
    /\ memcached = EmptyStore
    /\ redis = EmptyRedis
    /\ call = NoCall
    /\ ret = Resolved(Undefined)
    /\ written = NothingWritten
    /\ history = NoHistory
    /\ inflight = NoneInFlight
    /\ disposed = FALSE
    /\ invoked = 0
    /\ issued = <<>>

\* only history is observed in this specification
ObserveHistoryPut(tagset) ==
    /\ history' = [pure |-> /\ history.pure
                            /\ tagset.isTagSet
                            /\ history.names \in {<<>>, tagset.names},
                   names |-> tagset.names]
    /\ UNCHANGED written
ObserveHistoryOther ==
    /\ history' = [history EXCEPT !.pure = FALSE]
    /\ UNCHANGED written

McPut ==
    \E key \in McKeys, value \in McValues, t \in McTtls, tagset \in McTagSets :
        /\ Memcached_put(key, value, t, tagset)
        /\ ObserveHistoryPut(tagset)
        /\ UNCHANGED <<inflight, disposed, invoked, issued>>

McPutArray ==
    \E key \in McIndexKeys, value \in McArrays :
        /\ Memcached_put(key, value, 0, NoTagSet)
        /\ ObserveHistoryOther
        /\ UNCHANGED <<inflight, disposed, invoked, issued>>

McForget ==
    \E key \in McKeys, tagset \in McTagSets :
        /\ Memcached_forget(key, tagset)
        /\ ObserveHistoryOther
        /\ UNCHANGED <<inflight, disposed, invoked, issued>>

McFlush ==
    \E tagset \in McTagSets \cup {NoTagSet} :
        /\ Memcached_flush(tagset)
        /\ UNCHANGED observers
        /\ UNCHANGED <<inflight, disposed, invoked, issued>>

McElapse ==
    /\ \E x \in DOMAIN memcached : memcached[x].life # 0
    /\ Memcached_elapse
    /\ UNCHANGED observers
    /\ UNCHANGED <<inflight, disposed, invoked, issued>>

NextMemcached ==
    \/ McPut
    \/ McPutArray
    \/ McForget
    \/ McFlush
    \/ McElapse

SpecMemcached == InitMemcached /\ [][NextMemcached]_vars

(***************************************************************************)
(* Claims on the MemcachedDriver (SpecMemcached).                          *)
(***************************************************************************)
\* C4: when a tag-scoped put(k, v, ttl, T) has completed, every tag index
\* named by T is an array containing ref(k) and get(k, T) is v.
C4_PutIndexesRef ==
    (call.name = "put" /\ call.tagset.isTagSet) =>
        /\ \A i \in 1..Len(call.tagset.keys) :
              LET index == Memcached_get_result(memcached, call.tagset.keys[i], NoTagSet)
              IN  IsArray(index) /\ Includes(index.a, ref(call.tagset, call.keys[1]))
        /\ Memcached_get_result(memcached, call.keys[1], call.tagset) = call.value

\* C5: after tag-scoped puts under one TagSet T and nothing else, a
\* flush(T) leaves get(k, T) absent for every key k.
C5_FlushAfterPuts ==
    (/\ call.name = "flush"
     /\ call.tagset.isTagSet
     /\ history.pure
     /\ history.names = call.tagset.names)
    => \A key \in McKeys :
          Memcached_get_result(memcached, key, call.tagset) = Undefined

\* C19: a tag-scoped forget(k, T) of the MemcachedDriver deletes every
\* index key of T whose array is left empty by removing ref(k), and
\* rewrites every other index array of T without ref(k).
C19_ForgetPrunesEmptyIndex ==
    [][(call'.name = "forget" /\ call'.tagset.isTagSet) =>
        \A i \in 1..Len(call'.tagset.keys) :
            LET k == call'.tagset.keys[i]
                index == Memcached_get_result(memcached, k, NoTagSet)
                rest == Without(Distinct(index.a), ref(call'.tagset, call'.keys[1]))
            IN  IsArray(index) =>
                    IF Len(rest) = 0
                    THEN ~Memcached_has_result(memcached', k, NoTagSet)
                    ELSE Memcached_get_result(memcached', k, NoTagSet) = Arr(rest)
      ]_vars

(***************************************************************************)
(* SpecDrivers: a driver of any of the three variants, selected at         *)
(* construction; put, get, getMany, increment and decrement on two keys,   *)
(* untagged or under the TagSet A.                                         *)
(***************************************************************************)
Backends == {"memory", "redis", "memcached"}
DrvKeys == Keys
DrvTagSets == {NoTagSet, TagA}
DrvValues == {Num(1), Str("abc")}
\* the plain lifetime each variant takes: redis refuses EX 0
DrvTtl == [b \in Backends |-> IF b = "redis" THEN 1 ELSE 0]
DrvCountKeys == {"k1"}
DrvAmounts == {1, 2}
DrvKeyLists == {<<"k1">>, <<"k1", "k2">>, <<"k2", "k1">>}

\* what get / has of the driver in use answer in the current state
Driver_get_result(key, tagset) ==
    CASE backend = "memory" -> Memory_get_result(memory, key, tagset)
      [] backend = "redis" -> Redis_get_result(redis, key, tagset)
      [] backend = "memcached" -> Memcached_get_result(memcached, key, tagset)
Driver_has_result(key, tagset) ==
    CASE backend = "memory" -> Memory_has_result(memory, key, tagset)
      [] backend = "redis" -> Redis_has_result(redis, key, tagset)
      [] backend = "memcached" -> Memcached_has_result(memcached, key, tagset)

InitDrivers ==
    /\ backend \in Backends
    /\ memory = EmptyMap
    /\ ttl = <<>>
    /\ timer = (backend = "memory")
    /\ memcached = EmptyStore
    /\ redis = EmptyRedis
    /\ call = NoCall
    /\ ret = Resolved(Undefined)
    /\ written = NothingWritten
    /\ history = NoHistory
    /\ inflight = NoneInFlight
    /\ disposed = FALSE
    /\ invoked = 0
    /\ issued = <<>>

DrvPut ==
    \E key \in DrvKeys, value \in DrvValues, tagset \in DrvTagSets :
        /\ \/ Memory_put(key, value, DrvTtl["memory"], tagset)
           \/ Redis_put(key, value, DrvTtl["redis"], tagset)
           \/ Memcached_put(key, value, DrvTtl["memcached"], tagset)
        /\ UNCHANGED observers
        /\ UNCHANGED <<inflight, disposed, invoked, issued>>

DrvGet ==
    \E key \in DrvKeys, tagset \in DrvTagSets :
        /\ \/ Memory_get(key, tagset)
           \/ Redis_get(key, tagset)
           \/ Memcached_get(key, tagset)
        /\ UNCHANGED observers
        /\ UNCHANGED <<inflight, disposed, invoked, issued>>

DrvGetMany ==
    \E keys \in DrvKeyLists, tagset \in DrvTagSets :
        /\ \/ Memory_getMany(keys, tagset)
           \/ Redis_getMany(keys, tagset)
           \/ Memcached_getMany(keys, tagset)
        /\ UNCHANGED observers
        /\ UNCHANGED <<inflight, disposed, invoked, issued>>

\* the stored value is one a caller put, or a number below the bound
Countable(key, tagset) ==
    LET value == Driver_get_result(key, tagset)
    IN  \/ ~Driver_has_result(key, tagset)
        \/ value \in DrvValues \cup {Null}
        \/ value.d = 0 /\ value.t = "number" /\ value.n < MaxNum /\ value.n > 0 - MaxNum

DrvIncrement ==
    \E key \in DrvCountKeys, amount \in DrvAmounts, tagset \in DrvTagSets :
        /\ Countable(key, tagset)
        /\ \/ Memory_increment(key, amount, tagset)
           \/ Redis_increment(key, amount, tagset)
           \/ Memcached_increment(key, amount, tagset)
        /\ UNCHANGED observers
        /\ UNCHANGED <<inflight, disposed, invoked, issued>>

DrvDecrement ==
    \E key \in DrvCountKeys, amount \in DrvAmounts, tagset \in DrvTagSets :
        /\ Countable(key, tagset)
        /\ \/ Memory_decrement(key, amount, tagset)
           \/ Redis_decrement(key, amount, tagset)
           \/ Memcached_decrement(key, amount, tagset)
        /\ UNCHANGED observers
        /\ UNCHANGED <<inflight, disposed, invoked, issued>>

NextDrivers ==
    \/ DrvPut
    \/ DrvGet
    \/ DrvGetMany
    \/ DrvIncrement
    \/ DrvDecrement

SpecDrivers == InitDrivers /\ [][NextDrivers]_vars

(***************************************************************************)
(* Claims on all three drivers (SpecDrivers).                              *)
(***************************************************************************)
\* the step is a call of the named operation on the key under the tagset
Calls(name, key, tagset) ==
    /\ call'.name = name
    /\ call'.keys = <<key>>
    /\ call'.tagset = tagset

\* the stored value is a number
HoldsNumber(key, tagset) ==
    /\ Driver_has_result(key, tagset)
    /\ Driver_get_result(key, tagset).d = 0
    /\ Driver_get_result(key, tagset).t = "number"

\* C8: on every backend increment(k, a) on an absent key resolves to a and
\* stores a at k, decrement(k, a) on an absent key resolves to -a, and an
\* increment(k, b) of a key holding the number n resolves to n + b.
C8_IncrementFromAbsent ==
    [][\A key \in DrvCountKeys, tagset \in DrvTagSets :
        /\ (Calls("increment", key, tagset) /\ ~Driver_has_result(key, tagset))
              => /\ ret'.ok
                 /\ ret'.val = Num(call'.amount)
                 /\ Driver_get_result(key, tagset)' = Num(call'.amount)
        /\ (Calls("decrement", key, tagset) /\ ~Driver_has_result(key, tagset))
              => /\ ret'.ok
                 /\ ret'.val = Num(0 - call'.amount)
        /\ (Calls("increment", key, tagset) /\ HoldsNumber(key, tagset))
              => /\ ret'.ok
                 /\ ret'.val = Num(Driver_get_result(key, tagset).n + call'.amount)
      ]_vars

\* C9: on every backend increment / decrement of a key whose stored value
\* is not a number is rejected and leaves the stored value unchanged.
C9_NonNumberRejected ==
    [][\A key \in DrvCountKeys, tagset \in DrvTagSets :
        (/\ Calls("increment", key, tagset) \/ Calls("decrement", key, tagset)
         /\ Driver_has_result(key, tagset)
         /\ TypeOf(Driver_get_result(key, tagset)) # "number")
        => /\ ~ret'.ok
           /\ Driver_get_result(key, tagset)' = Driver_get_result(key, tagset)
      ]_vars

\* C10: on every backend getMany(keys, tagset) resolves to one element per
\* key, the i-th being what get(keys[i], tagset) resolves to (absent for a
\* missing key).
C10_GetManyPositional ==
    call.name = "getMany" =>
        /\ ret.ok
        /\ Len(ret.vals) = Len(call.keys)
        /\ \A i \in 1..Len(call.keys) :
              i <= Len(ret.vals)
                  /\ ret.vals[i] = Driver_get_result(call.keys[i], call.tagset)

(***************************************************************************)
(* SpecTagged: a driver of any of the three variants, selected at          *)
(* construction; put, forever, forget, flush and get of one key, untagged  *)
(* or under the TagSets A and A,B.  On the memcached variant callers may   *)
(* also store an empty array under "tags:A" and "tags:B" directly.         *)
(***************************************************************************)
TgKeys == {"k1"}
TgTagSets == {NoTagSet, TagA, TagAB}
TgValues == {Num(1), Str("abc")}
TgIndexKeys == {"tags:A", "tags:B"}

\* the references the tag index at indexKey lists on the driver in use
Driver_index_result(indexKey) ==
    CASE backend = "memory" ->
             LET v == Lookup(memory, indexKey)
             IN  IF IsArray(v) THEN {v.a[i] : i \in 1..Len(v.a)} ELSE {}
      [] backend = "redis" ->
             IF RedisExists(redis, indexKey) THEN redis[indexKey].members ELSE {}
      [] backend = "memcached" ->
             LET v == Memcached_get_result(memcached, indexKey, NoTagSet)
             IN  IF IsArray(v) THEN {v.a[i] : i \in 1..Len(v.a)} ELSE {}

TgPut ==
    \E key \in TgKeys, value \in TgValues, tagset \in TgTagSets :
        /\ \/ Memory_put(key, value, DrvTtl["memory"], tagset)
           \/ Redis_put(key, value, DrvTtl["redis"], tagset)
           \/ Memcached_put(key, value, DrvTtl["memcached"], tagset)
        /\ UNCHANGED observers
        /\ UNCHANGED <<inflight, disposed, invoked, issued>>

TgPutArray ==
    \E key \in TgIndexKeys :
        /\ Memcached_put(key, Arr(<<>>), 0, NoTagSet)
        /\ UNCHANGED observers
        /\ UNCHANGED <<inflight, disposed, invoked, issued>>

TgForever ==
    \E key \in TgKeys, value \in TgValues, tagset \in TgTagSets :
        /\ \/ Memory_forever(key, value, tagset)
           \/ Redis_forever(key, value, tagset)
           \/ Memcached_forever(key, value, tagset)
        /\ UNCHANGED observers
        /\ UNCHANGED <<inflight, disposed, invoked, issued>>

TgForget ==
    \E key \in TgKeys, tagset \in TgTagSets :
        /\ \/ Memory_forget(key, tagset)
           \/ Redis_forget(key, tagset)
           \/ Memcached_forget(key, tagset)
        /\ UNCHANGED observers
        /\ UNCHANGED <<inflight, disposed, invoked, issued>>

TgFlush ==
    \E tagset \in TgTagSets :
        /\ \/ Memory_flush(tagset)
           \/ Redis_flush(tagset)
           \/ Memcached_flush(tagset)
        /\ UNCHANGED observers
        /\ UNCHANGED <<inflight, disposed, invoked, issued>>

TgGet ==
    \E key \in TgKeys, tagset \in TgTagSets :
        /\ \/ Memory_get(key, tagset)
           \/ Redis_get(key, tagset)
           \/ Memcached_get(key, tagset)
        /\ UNCHANGED observers
        /\ UNCHANGED <<inflight, disposed, invoked, issued>>

NextTagged ==
    \/ TgPut
    \/ TgPutArray
    \/ TgForever
    \/ TgForget
    \/ TgFlush
    \/ TgGet

SpecTagged == InitDrivers /\ [][NextTagged]_vars

(***************************************************************************)
(* Claims on tag-scoped writes of all three drivers (SpecTagged).          *)
(***************************************************************************)
\* C11: on every backend, when a tag-scoped forget(k, T) has completed, no
\* tag index named by T lists ref(k) and the value at ref(k) is absent,
\* whichever of the indexes of T existed before the call.
C11_ForgetRemovesRef ==
    (call.name = "forget" /\ call.tagset.isTagSet) =>
        /\ \A i \in 1..Len(call.tagset.keys) :
              ref(call.tagset, call.keys[1])
                  \notin Driver_index_result(call.tagset.keys[i])
        /\ ~Driver_has_result(call.keys[1], call.tagset)

\* C16: on every backend, right after forever(k, v, tagset?) a
\* get(k, tagset?) returns v, as it does after put(k, v, ttl, tagset?).
C16_ForeverRoundTrip ==
    call.name \in {"forever", "put"} =>
        (ret.ok => Driver_get_result(call.keys[1], call.tagset) = call.value)

\* the storage keys whose entry a step creates, changes or removes
WrittenKeys ==
    {x \in DOMAIN memory \cup DOMAIN memory' :
        \/ (x \in DOMAIN memory) # (x \in DOMAIN memory')
        \/ Lookup(memory, x) # Lookup(memory', x)}
    \cup {x \in DOMAIN memcached \cup DOMAIN memcached' :
        \/ StoreHas(memcached, x) # StoreHas(memcached', x)
        \/ StoreHas(memcached, x) /\ memcached[x] # memcached'[x]}
    \cup {x \in DOMAIN redis \cup DOMAIN redis' :
        \/ RedisExists(redis, x) # RedisExists(redis', x)
        \/ RedisExists(redis, x) /\ redis[x] # redis'[x]}

\* get and has of key under tagset answer after the step as before it
EntryUnchanged(key, tagset) ==
    /\ Driver_get_result(key, tagset)' = Driver_get_result(key, tagset)
    /\ Driver_has_result(key, tagset)' = Driver_has_result(key, tagset)

RaceKeys == Keys
RaceTagSets == {TagA, TagAB}
RaceValues == {Num(1)}

RacePutArray ==
    \E key \in McIndexKeys, value \in McArrays :
        /\ \A c \in Callers : inflight[c].pc = "idle"
        /\ Memcached_put(key, value, 0, NoTagSet)
        /\ UNCHANGED observers
        /\ UNCHANGED <<inflight, disposed, invoked, issued>>

RaceGetMany ==
    \E c \in Callers, key \in RaceKeys, value \in RaceValues, tagset \in RaceTagSets :
        /\ Memcached_put_getMany(c, key, value, 0, tagset)
        /\ UNCHANGED observers
        /\ UNCHANGED <<disposed, invoked, issued>>

RaceMap ==
    \E c \in Callers :
        /\ Memcached_put_map(c)
        /\ UNCHANGED observers
        /\ UNCHANGED <<disposed, invoked, issued>>

RaceRef ==
    \E c \in Callers :
        /\ Memcached_put_ref(c)
        /\ UNCHANGED observers
        /\ UNCHANGED <<disposed, invoked, issued>>

NextMcRace ==
    \/ RacePutArray
    \/ RaceGetMany
    \/ RaceMap
    \/ RaceRef

SpecMcRace == InitMemcached /\ [][NextMcRace]_vars

(***************************************************************************)
(* Claims on concurrent puts of the MemcachedDriver (SpecMcRace).          *)
(***************************************************************************)
\* the reference a caller's put stores its value at
FlightRef(c) == ref(inflight[c].tagset, inflight[c].key)

\* the puts of callers c and d, of different keys under one TagSet, have
\* both read every index of the TagSet before the other wrote it
BothReadFirst(c, d) ==
    /\ c # d
    /\ inflight[c].tagset = inflight[d].tagset
    /\ inflight[c].key # inflight[d].key
    /\ Len(inflight[c].values) = Len(inflight[c].tagset.keys)
    /\ Len(inflight[d].values) = Len(inflight[d].tagset.keys)
    /\ \A i \in 1..Len(inflight[c].values) :
          /\ IsArray(inflight[c].values[i])
          /\ IsArray(inflight[d].values[i])
          /\ ~Includes(inflight[c].values[i].a, FlightRef(d))
          /\ ~Includes(inflight[d].values[i].a, FlightRef(c))

\* C12: when two tag-scoped puts of different keys under the same TagSet
\* have both read the tag indexes before either wrote them, then after both
\* have completed each tag index lists only one of the two references,
\* while both values are stored.
C12_LostIndexUpdate ==
    \A c, d \in Callers :
        (/\ inflight[c].pc = "put.done"
         /\ inflight[d].pc = "put.done"
         /\ BothReadFirst(c, d))
        => /\ \A i \in 1..Len(inflight[c].tagset.keys) :
                 LET index == Memcached_get_result(
                                  memcached, inflight[c].tagset.keys[i], NoTagSet)
                 IN  /\ IsArray(index)
                     /\ Includes(index.a, FlightRef(c)) # Includes(index.a, FlightRef(d))
           /\ Memcached_has_result(memcached, inflight[c].key, inflight[c].tagset)
           /\ Memcached_has_result(memcached, inflight[d].key, inflight[d].tagset)

\* both puts under A have completed, both values are stored and the index
\* of A lists the reference of k2 only
C12_Witness ==
    /\ inflight[1].pc = "put.done"
    /\ inflight[2].pc = "put.done"
    /\ BothReadFirst(1, 2)
    /\ inflight[1].tagset = TagA
    /\ inflight[1].key = "k1"
    /\ Memcached_get_result(memcached, "tags:A", NoTagSet) = Arr(<<ref(TagA, "k2")>>)
    /\ Memcached_has_result(memcached, "k1", TagA)
    /\ Memcached_has_result(memcached, "k2", TagA)

(***************************************************************************)
(* SpecRedis: one RedisDriver; tag-scoped put, putMany, forever, forget    *)
(* and flush of two keys under the TagSets A, B and A,B, and the passing   *)
(* of time on the server.  Every handler issues one backend command (the   *)
(* EXEC of its MULTI, or its EVAL), which the server runs undivided, so    *)
(* the concurrent calls interleave as whole handlers.                      *)
(***************************************************************************)
RdKeys == Keys
RdTagSets == {TagA, TagB, TagAB}
RdValues == {Num(1)}
RdTtls == {0, 1}
RdArrays ==
    {<<[key |-> "k1", value |-> Num(1)]>>,
     <<[key |-> "k1", value |-> Num(1)], [key |-> "k2", value |-> Num(1)]>>}

InitRedis ==
    /\ backend = "redis"
    /\ memory = EmptyMap
    /\ ttl = <<>>
    /\ timer = FALSE
    /\ memcached = EmptyStore
    /\ redis = EmptyRedis
    /\ call = NoCall
    /\ ret = Resolved(Undefined)
    /\ written = NothingWritten
    /\ history = NoHistory
    /\ inflight = NoneInFlight
    /\ disposed = FALSE
    /\ invoked = 0
    /\ issued = <<>>

RdPut ==
    \E key \in RdKeys, value \in RdValues, t \in RdTtls, tagset \in RdTagSets :
        /\ Redis_put(key, value, t, tagset)
        /\ UNCHANGED observers
        /\ UNCHANGED <<inflight, disposed, invoked, issued>>

RdPutMany ==
    \E array \in RdArrays, t \in RdTtls, tagset \in RdTagSets :
        /\ Redis_putMany(array, t, tagset)
        /\ UNCHANGED observers
        /\ UNCHANGED <<inflight, disposed, invoked, issued>>

RdForever ==
    \E key \in RdKeys, value \in RdValues, tagset \in RdTagSets :
        /\ Redis_forever(key, value, tagset)
        /\ UNCHANGED observers
        /\ UNCHANGED <<inflight, disposed, invoked, issued>>

RdForget ==
    \E key \in RdKeys, tagset \in RdTagSets :
        /\ Redis_forget(key, tagset)
        /\ UNCHANGED observers
        /\ UNCHANGED <<inflight, disposed, invoked, issued>>

RdFlush ==
    \E tagset \in RdTagSets :
        /\ Redis_flush(tagset)
        /\ UNCHANGED observers
        /\ UNCHANGED <<inflight, disposed, invoked, issued>>

RdElapse ==
    /\ \E x \in DOMAIN redis : redis[x].life # 0
    /\ Redis_elapse
    /\ UNCHANGED observers
    /\ UNCHANGED <<inflight, disposed, invoked, issued>>

NextRedis ==
    \/ RdPut
    \/ RdPutMany
    \/ RdForever
    \/ RdForget
    \/ RdFlush
    \/ RdElapse

SpecRedis == InitRedis /\ [][NextRedis]_vars

(***************************************************************************)
(* Claims on the RedisDriver (SpecRedis).                                  *)
(***************************************************************************)
\* C13: in every state between backend commands of concurrent tag-scoped
\* put, putMany, forever, forget and flush calls, a reference key that holds
\* a value is a member of every tag set of the TagSet it was stored under,
\* and a flush of any one of its tags deletes it.
C13_IndexValueAtomic ==
    \A T \in RdTagSets, key \in RdKeys :
        Redis_has_result(redis, key, T) =>
            \A i \in 1..Len(T.keys) :
                /\ RedisExists(redis, T.keys[i])
                /\ ref(T, key) \in redis[T.keys[i]].members
                /\ ~Redis_has_result(
                       Redis_flush_store(redis, TagSet(<<T.names[i]>>)), key, T)

\* k1 under A,B has just been forgotten while k2 under A,B, stored with an
\* expiration, is still held and listed by the sets of A and of B
C13_Witness ==
    /\ call.name = "forget"
    /\ call.keys = <<"k1">>
    /\ call.tagset = TagAB
    /\ Redis_has_result(redis, "k2", TagAB)
    /\ redis[ref(TagAB, "k2")].life = 1
    /\ redis["tags:A"].members = {ref(TagAB, "k2")}
    /\ ref(TagAB, "k2") \in redis["tags:B"].members

(***************************************************************************)
(* SpecRedisRace: one RedisDriver and two callers, each invoking one       *)
(* increment; the GET and the SET of the two handlers interleave.  Before  *)
(* either call, a value may be stored with forever.                        *)
(***************************************************************************)
RrKeys == Keys
RrTagSets == {NoTagSet, TagA}
RrValues == {Num(1), Str("abc")}
RrAmounts == {1, 2}

RrForever ==
    \E key \in RrKeys, value \in RrValues, tagset \in RrTagSets :
        /\ \A c \in Callers : inflight[c].pc = "idle"
        /\ Redis_forever(key, value, tagset)
        /\ UNCHANGED observers
        /\ UNCHANGED <<inflight, disposed, invoked, issued>>

RrGet ==
    \E c \in Callers, key \in RrKeys, amount \in RrAmounts, tagset \in RrTagSets :
        /\ Redis_increment_get(c, key, amount, tagset)
        /\ UNCHANGED observers
        /\ UNCHANGED <<disposed, invoked, issued>>

RrSet ==
    \E c \in Callers :
        /\ Redis_increment_set(c)
        /\ UNCHANGED observers
        /\ UNCHANGED <<disposed, invoked, issued>>

NextRedisRace ==
    \/ RrForever
    \/ RrGet
    \/ RrSet

SpecRedisRace == InitRedis /\ [][NextRedisRace]_vars

(***************************************************************************)
(* Claims on concurrent increments of the RedisDriver (SpecRedisRace).     *)
(***************************************************************************)
\* the increments of callers c and d are on one key and started from the
\* same number: each GET was answered before the SET of the other
BothGotFirst(c, d) ==
    /\ c # d
    /\ inflight[c].pc = "increment.done"
    /\ inflight[d].pc = "increment.done"
    /\ inflight[c].key = inflight[d].key
    /\ inflight[c].tagset = inflight[d].tagset
    /\ inflight[c].value = inflight[d].value
    /\ TypeOf(inflight[c].value) = "number"
    /\ inflight[c].values # <<>>
    /\ inflight[d].values # <<>>

\* C14: when two increment(k, 1) calls on one key have both read the key
\* before either wrote it, both resolve to the same value, the number read
\* plus one, and that is the value stored once both have completed: one
\* increment is lost.
C14_IncrementLostUpdate ==
    \A c, d \in Callers :
        (/\ BothGotFirst(c, d)
         /\ inflight[c].amount = 1
         /\ inflight[d].amount = 1)
        => /\ inflight[c].values = <<Num(inflight[c].value.n + 1)>>
           /\ inflight[d].values = inflight[c].values
           /\ Redis_get_result(redis, inflight[c].key, inflight[c].tagset)
                 = Num(inflight[c].value.n + 1)

\* both increment(k1, 1) have resolved to 2 on a key that held 1, and the
\* key holds 2
C14_Witness ==
    /\ BothGotFirst(1, 2)
    /\ inflight[1].key = "k1"
    /\ inflight[1].tagset = NoTagSet
    /\ inflight[1].amount = 1
    /\ inflight[2].amount = 1
    /\ inflight[1].value = Num(1)
    /\ inflight[1].values = <<Num(2)>>
    /\ inflight[2].values = <<Num(2)>>
    /\ Redis_get_result(redis, "k1", NoTagSet) = Num(2)

(***************************************************************************)
(* SpecDispose: one MemoryDriver, untagged put of two keys, the sweep and  *)
(* dispose.  The handlers of a disposed driver throw on this.memory; only  *)
(* the interval still calls into it.                                       *)
(***************************************************************************)
DpKeys == Keys
DpValues == {Num(1)}

DpPut ==
    \E key \in DpKeys, value \in DpValues, t \in Ttls :
        /\ ~disposed
        /\ t # 0 => Len(ttl) < MaxRoster
        /\ Memory_put(key, value, t, NoTagSet)
        /\ UNCHANGED observers
        /\ UNCHANGED <<inflight, disposed, invoked, issued>>

DpTick ==
    /\ ~disposed
    /\ Memory_tick
    /\ UNCHANGED observers
    /\ UNCHANGED <<inflight, disposed, invoked, issued>>

DpDispose ==
    /\ ~disposed
    /\ Memory_dispose
    /\ UNCHANGED observers
    /\ UNCHANGED <<inflight, invoked, issued>>

DpTickDisposed ==
    /\ Memory_tick_disposed
    /\ UNCHANGED observers
    /\ UNCHANGED <<inflight, invoked, issued>>

NextDispose ==
    \/ DpPut
    \/ DpTick
    \/ DpDispose
    \/ DpTickDisposed

SpecDispose == Init /\ [][NextDispose]_vars

(***************************************************************************)
(* Claims on dispose of the MemoryDriver (SpecDispose).                    *)
(***************************************************************************)
\* C15: once dispose() has been called the sweep interval is cancelled and
\* no sweep tick executes on the driver any more.
C15_DisposeCancelsTimer ==
    disposed => (~timer /\ call.name # "tick")

(***************************************************************************)
(* SpecFlush: one MemoryDriver; put of one key, untagged or under the tag  *)
(* A, flush and the sweep.  Only history is observed.                      *)
(***************************************************************************)
FlPut ==
    \E key \in SweepKeys, value \in TagValues, t \in Ttls, tagset \in SweepTagSets :
        /\ t # 0 => Len(ttl) < MaxRoster
        /\ Memory_put(key, value, t, tagset)
        /\ ObserveHistoryPut(tagset)
        /\ UNCHANGED <<inflight, disposed, invoked, issued>>

FlFlush ==
    \E tagset \in SweepTagSets :
        /\ Memory_flush(tagset)
        /\ UNCHANGED observers
        /\ UNCHANGED <<inflight, disposed, invoked, issued>>

FlTick ==
    /\ ttl # <<>>
    /\ Memory_tick
    /\ UNCHANGED observers
    /\ UNCHANGED <<inflight, disposed, invoked, issued>>

NextFlush ==
    \/ FlPut
    \/ FlFlush
    \/ FlTick

SpecFlush == Init /\ [][NextFlush]_vars

(***************************************************************************)
(* Claims on the untagged flush of the MemoryDriver (SpecFlush).           *)
(***************************************************************************)
\* C20: after an untagged flush() of the MemoryDriver every key is absent,
\* no tag index exists and the TTL roster is empty, so that an entry put
\* next is not evicted by a TTL registered before the flush: put without
\* TTL it is still stored after any number of ticks, put with TTL t it is
\* still stored after fewer than t ticks.
C20_FlushDiscardsAll ==
    (call.name = "flush" /\ ~call.tagset.isTagSet) =>
        /\ memory = EmptyMap
        /\ ttl = <<>>
        /\ \A key \in SweepKeys, tagset \in SweepTagSets, t \in Ttls, n \in 0..MaxTicks :
              (t = 0 \/ n < t) =>
                  Memory_has_result(
                      Memory_ticks(Memory_put_memory(memory, key, Num(1), t, tagset),
                                   Memory_put_ttl(ttl, key, t, tagset), n).memory,
                      key, tagset)

\* an untagged flush has run after entries were put under the tag A only
C20_Witness ==
    /\ call.name = "flush"
    /\ ~call.tagset.isTagSet
    /\ history.pure
    /\ history.names = <<"A">>
    /\ memory = EmptyMap
    /\ ttl = <<>>

(***************************************************************************)
(* SpecTagSet: two callers construct TagSets over tag names and ask them   *)
(* for reference keys.  A caller's TagSet and the last reference key it    *)
(* obtained are held in inflight.                                          *)
(***************************************************************************)
MaxNames == 2
TsNames == {"x", "y", "x|tags:x"}
TsKeys == {"k1", "k2"}
TsNameSeqs == UNION {[1..n -> TsNames] : n \in 0..MaxNames}

\* const tagset = new TagSet(...names)
TagSet_new(c, names) ==
    /\ inflight' = [inflight EXCEPT
                       ![c] = Flight("tagset", "", Undefined, 0, 0, TagSet(names), <<>>, 0)]
    /\ UNCHANGED <<backend, memory, ttl, timer, memcached, redis, call, ret>>

\* tagset.ref(key)
TagSet_ref(c, key) ==
    /\ inflight[c].pc \in {"tagset", "ref"}
    /\ inflight' = [inflight EXCEPT
                       ![c].pc = "ref",
                       ![c].key = key,
                       ![c].values = <<Str(ref(inflight[c].tagset, key))>>]
    /\ UNCHANGED <<backend, memory, ttl, timer, memcached, redis, call, ret>>

TsNew ==
    \E c \in Callers, names \in TsNameSeqs :
        /\ TagSet_new(c, names)
        /\ UNCHANGED observers
        /\ UNCHANGED <<disposed, invoked, issued>>

TsRef ==
    \E c \in Callers, key \in TsKeys :
        /\ TagSet_ref(c, key)
        /\ UNCHANGED observers
        /\ UNCHANGED <<disposed, invoked, issued>>

NextTagSet ==
    \/ TsNew
    \/ TsRef

SpecTagSet == Init /\ [][NextTagSet]_vars

(***************************************************************************)
(* Claims on TagSet (SpecTagSet).                                          *)
(***************************************************************************)
\* the number of positions of a sequence that hold x
Occurrences(seq, x) == Cardinality({i \in 1..Len(seq) : seq[i] = x})

\* two name sequences that hold the same names the same number of times,
\* in a different order
DiffersOnlyInOrder(names1, names2) ==
    /\ names1 # names2
    /\ Len(names1) = Len(names2)
    /\ \A i \in 1..Len(names1) :
          Occurrences(names1, names1[i]) = Occurrences(names2, names1[i])

\* C21: TagSet(N).ref(k) is digest("tags:"+name joined by "|") + ":" + k;
\* two TagSets built from the same name sequence give the same reference
\* key for the same k, and two TagSets whose name sequences differ only in
\* order have different digests and give different reference keys for the
\* same k.
C21_RefDependsOnOrder ==
    \A c, d \in Callers :
        (inflight[c].pc = "ref" /\ inflight[d].pc = "ref") =>
            LET Tc == inflight[c].tagset
                Td == inflight[d].tagset
            IN  /\ inflight[c].values[1] =
                      Str(Sha1(Join([i \in 1..Len(Tc.names) |-> "tags:" \o Tc.names[i]], "|"))
                          \o ":" \o inflight[c].key)
                /\ (Tc.names = Td.names /\ inflight[c].key = inflight[d].key)
                      => inflight[c].values = inflight[d].values
                /\ DiffersOnlyInOrder(Tc.names, Td.names) =>
                      /\ Tc.hash # Td.hash
                      /\ inflight[c].key = inflight[d].key
                            => inflight[c].values # inflight[d].values

(***************************************************************************)
(* Cache: the facade over a driver.  A facade holds the driver, a default  *)
(* TTL and the TagSet it was scoped to by tags(...), here the tagset       *)
(* argument; a handler runs its driver calls one after the other.          *)
(***************************************************************************)
\* this.ttl = ttl || 3600, for a facade constructed without a ttl option
DefaultTtl == 3600

\* ttl || this.ttl
Cache_ttl(t) == IF t # 0 THEN t ELSE DefaultTtl

\* a value or a function handed to the facade: value is the value itself,
\* or what the function returns when it is invoked
Plain(v) == [isFunction |-> FALSE, value |-> v]
Function(v) == [isFunction |-> TRUE, value |-> v]

\* what driver.put, driver.forget and driver.flush of the
\* driver in use do to the stores
Driver_put_stores(key, value, t, tagset) ==
    /\ memory' = IF backend = "memory"
                 THEN Memory_put_memory(memory, key, value, t, tagset) ELSE memory
    /\ ttl' = IF backend = "memory" THEN Memory_put_ttl(ttl, key, t, tagset) ELSE ttl
    /\ memcached' = IF backend = "memcached"
                    THEN Memcached_put_store(memcached, key, value, t, tagset)
                    ELSE memcached
    /\ redis' = IF backend = "redis"
                THEN Redis_put_store(redis, key, value, t, tagset) ELSE redis

Driver_forget_stores(key, tagset) ==
    /\ memory' = IF backend = "memory"
                 THEN Memory_forget_memory(memory, key, tagset) ELSE memory
    /\ ttl' = IF backend = "memory" THEN Memory_forget_ttl(ttl, key, tagset) ELSE ttl
    /\ memcached' = IF backend = "memcached"
                    THEN Memcached_forget_store(memcached, key, tagset) ELSE memcached
    /\ redis' = IF backend = "redis"
                THEN Redis_forget_store(redis, key, tagset) ELSE redis

Driver_flush_stores(tagset) ==
    /\ memory' = IF backend = "memory" THEN Memory_flush_memory(memory, tagset) ELSE memory
    /\ ttl' = IF backend = "memory" THEN Memory_flush_ttl(ttl, tagset) ELSE ttl
    /\ memcached' = IF backend = "memcached"
                    THEN Memcached_flush_store(memcached, tagset) ELSE memcached
    /\ redis' = IF backend = "redis" THEN Redis_flush_store(redis, tagset) ELSE redis

\* mutant: only an absent value falls back
Cache_get_result_OnlyAbsent(value, fallback) ==
    IF LooseUndefined(value) THEN fallback.value ELSE value

\* if (!value) the fallback, or what calling it returns; else the value
Cache_get_result(value, fallback) ==
    IF ~Truthy(value) THEN fallback.value ELSE value

Cache_get(key, fallback, tagset) ==
    LET value == Driver_get_result(key, tagset) IN
    /\ call' = Call("Cache.get", <<key>>, fallback.value, 0, 0, tagset)
    /\ ret' = Resolved(Cache_get_result(value, fallback))
    /\ invoked' = IF ~Truthy(value) /\ fallback.isFunction THEN 1 ELSE 0
    /\ UNCHANGED <<backend, memory, ttl, timer, memcached, redis>>

Cache_put(key, value, t, tagset) ==
    /\ Driver_put_stores(key, value, Cache_ttl(t), tagset)
    /\ call' = Call("Cache.put", <<key>>, value, t, 0, tagset)
    /\ ret' = Resolved(Undefined)
    /\ invoked' = 0
    /\ UNCHANGED <<backend, timer>>

Cache_forget(key, tagset) ==
    /\ Driver_forget_stores(key, tagset)
    /\ call' = Call("Cache.forget", <<key>>, Undefined, 0, 0, tagset)
    /\ ret' = Resolved(Undefined)
    /\ invoked' = 0
    /\ UNCHANGED <<backend, timer>>

Cache_flush(tagset) ==
    /\ Driver_flush_stores(tagset)
    /\ call' = Call("Cache.flush", <<>>, Undefined, 0, 0, tagset)
    /\ ret' = Resolved(Undefined)
    /\ invoked' = 0
    /\ UNCHANGED <<backend, timer>>

\* what add hands back: the promise of driver.has(...).then(...) is built
\* and dropped, the method has no return statement
Cache_add_result(added) == Undefined

\* has, then put when the key does not exist
Cache_add(key, value, t, tagset) ==
    LET exists == Driver_has_result(key, tagset) IN
    /\ IF ~exists
       THEN Driver_put_stores(key, value, Cache_ttl(t), tagset)
       ELSE UNCHANGED <<memory, ttl, memcached, redis>>
    /\ call' = Call("Cache.add", <<key>>, value, t, 0, tagset)
    /\ ret' = Resolved(Cache_add_result(~exists))
    /\ invoked' = 0
    /\ UNCHANGED <<backend, timer>>

\* mutant: only a truthy result is stored
Cache_remember_stores_Truthy(result) == Truthy(result)

\* if (result !== undefined)
Cache_remember_stores(result) == result # Undefined

\* get; on a falsy value call func and put a result that is not undefined
Cache_remember(key, func, t, tagset) ==
    LET value == Driver_get_result(key, tagset)
        result == func.value
    IN  /\ call' = Call("Cache.remember", <<key>>, func.value, t, 0, tagset)
        /\ IF ~Truthy(value)
           THEN /\ invoked' = 1
                /\ ret' = Resolved(result)
                /\ IF Cache_remember_stores(result)
                   THEN Driver_put_stores(key, result, Cache_ttl(t), tagset)
                   ELSE UNCHANGED <<memory, ttl, memcached, redis>>
           ELSE /\ invoked' = 0
                /\ ret' = Resolved(value)
                /\ UNCHANGED <<memory, ttl, memcached, redis>>
        /\ UNCHANGED <<backend, timer>>

\* get, then forget, then the value got
Cache_pull(key, tagset) ==
    LET value == Driver_get_result(key, tagset) IN
    /\ Driver_forget_stores(key, tagset)
    /\ call' = Call("Cache.pull", <<key>>, Undefined, 0, 0, tagset)
    /\ ret' = Resolved(value)
    /\ invoked' = 0
    /\ UNCHANGED <<backend, timer>>

(***************************************************************************)
(* SpecCache: a facade over a driver of any of the three variants; put,    *)
(* forget, get, add and remember of one key, untagged or scoped to the     *)
(* TagSet A.                                                               *)
(***************************************************************************)
CaKeys == {"k1"}
CaTagSets == {NoTagSet, TagA}
CaValues == {Num(0), Num(1), Str(""), Bool(FALSE)}
CaTtls == {0, 1}
CaFallbacks == {Plain(Undefined), Plain(Str("abc")), Function(Str("abc"))}
CaFuncs == {Function(Undefined), Function(Num(0)), Function(Str("abc"))}

\* the TTL roster of the MemoryDriver has room for one more entry
RosterHasRoom == backend = "memory" => Len(ttl) < MaxTagRoster

CaPut ==
    \E key \in CaKeys, value \in CaValues, t \in CaTtls, tagset \in CaTagSets :
        /\ RosterHasRoom
        /\ Cache_put(key, value, t, tagset)
        /\ UNCHANGED observers
        /\ UNCHANGED <<inflight, disposed, issued>>

CaForget ==
    \E key \in CaKeys, tagset \in CaTagSets :
        /\ Cache_forget(key, tagset)
        /\ UNCHANGED observers
        /\ UNCHANGED <<inflight, disposed, issued>>

CaGet ==
    \E key \in CaKeys, fallback \in CaFallbacks, tagset \in CaTagSets :
        /\ Cache_get(key, fallback, tagset)
        /\ UNCHANGED observers
        /\ UNCHANGED <<inflight, disposed, issued>>

CaAdd ==
    \E key \in CaKeys, value \in CaValues, t \in CaTtls, tagset \in CaTagSets :
        /\ RosterHasRoom
        /\ Cache_add(key, value, t, tagset)
        /\ UNCHANGED observers
        /\ UNCHANGED <<inflight, disposed, issued>>

CaRemember ==
    \E key \in CaKeys, func \in CaFuncs, t \in CaTtls, tagset \in CaTagSets :
        /\ RosterHasRoom
        /\ Cache_remember(key, func, t, tagset)
        /\ UNCHANGED observers
        /\ UNCHANGED <<inflight, disposed, issued>>

NextCache ==
    \/ CaPut
    \/ CaForget
    \/ CaGet
    \/ CaAdd
    \/ CaRemember

SpecCache == InitDrivers /\ [][NextCache]_vars

(***************************************************************************)
(* Claims on the Cache facade (SpecCache).                                 *)
(***************************************************************************)
\* the stores of the three drivers
stores == <<memory, ttl, memcached, redis>>

\* the step is a call of the named facade method on the key under tagset
CacheCalls(name, key, tagset) ==
    /\ call'.name = name
    /\ call'.keys = <<key>>
    /\ call'.tagset = tagset

\* C22: Cache.get(key, fallback) resolves to the fallback (or to what the
\* fallback returns when it is a function, called once) whenever the driver
\* returns a falsy value: for an absent key and for a stored 0, empty
\* string or false; otherwise it resolves to the value the driver returns
\* without calling the fallback; it never writes to the cache.
C22_GetFallsBackOnFalsy ==
    [][\A key \in CaKeys, tagset \in CaTagSets :
        CacheCalls("Cache.get", key, tagset) =>
            LET value == Driver_get_result(key, tagset) IN
            /\ ret'.ok
            /\ (\/ ~Driver_has_result(key, tagset)
                \/ value \in {Undefined, Null, Num(0), Str(""), Bool(FALSE)})
                  => ret'.val = call'.value
            /\ ~Truthy(value) => ret'.val = call'.value
            /\ Truthy(value) => (ret'.val = value /\ invoked' = 0)
            /\ invoked' \in {0, 1}
            /\ stores' = stores
      ]_vars

\* get('k1', 'abc') has resolved to 'abc' although k1 holds the number 0
C22_Witness ==
    /\ call.name = "Cache.get"
    /\ call.value = Str("abc")
    /\ Driver_has_result(call.keys[1], call.tagset)
    /\ Driver_get_result(call.keys[1], call.tagset) = Num(0)
    /\ ret.val = Str("abc")

\* C23: Cache.add(key, value, ttl) stores the value only if the key does
\* not exist yet, and the promise it returns resolves to true exactly when
\* the item was added and to false when the key already existed.
C23_AddReportsAdded ==
    [][\A key \in CaKeys, tagset \in CaTagSets :
        CacheCalls("Cache.add", key, tagset) =>
            IF Driver_has_result(key, tagset)
            THEN /\ stores' = stores
                 /\ ret'.val = Bool(FALSE)
            ELSE /\ Driver_get_result(key, tagset)' = call'.value
                 /\ ret'.val = Bool(TRUE)
      ]_vars

\* the lifetime the driver in use holds for the entry of key under tagset:
\* the countdown registered last on the roster, or the seconds the server
\* keeps the key; 0 when there is none
Driver_life_result(key, tagset) ==
    CASE backend = "memory" ->
             LET own == {i \in 1..Len(ttl) : ttl[i].key = Resolve(key, tagset)}
             IN  IF own = {} THEN 0
                 ELSE ttl[CHOOSE i \in own : \A j \in own : j <= i].ttl
      [] backend = "redis" ->
             IF RedisExists(redis, Resolve(key, tagset))
             THEN redis[Resolve(key, tagset)].life ELSE 0
      [] backend = "memcached" ->
             IF StoreHas(memcached, Resolve(key, tagset))
             THEN memcached[Resolve(key, tagset)].life ELSE 0

\* what remember does on a key that holds a truthy value, and on any other
\* key up to what it stores
RememberReadsOrCalls(key, tagset) ==
    LET value == Driver_get_result(key, tagset) IN
    IF Truthy(value)
    THEN /\ ret'.val = value
         /\ invoked' = 0
         /\ stores' = stores
    ELSE /\ invoked' = 1
         /\ ret'.val = call'.value
         /\ call'.value = Undefined => stores' = stores
         /\ call'.value # Undefined =>
               /\ Driver_get_result(key, tagset)' = call'.value
               /\ Driver_life_result(key, tagset)' = Cache_ttl(call'.ttl)

\* what a get(key) of the facade without fallback resolves to after the step
GetAfter(key, tagset) ==
    Cache_get_result(Driver_get_result(key, tagset)', Plain(Undefined))

\* C24 as stated: Cache.remember(key, func, ttl) on a key holding a truthy
\* value resolves to that value without calling func and without writing;
\* otherwise it calls func once, stores a result that is not undefined
\* under key with ttl (or the default ttl) and resolves to the result, and
\* an immediately following get(key) returns the result.
C24_RememberThenGet ==
    [][\A key \in CaKeys, tagset \in CaTagSets :
        CacheCalls("Cache.remember", key, tagset) =>
            /\ RememberReadsOrCalls(key, tagset)
            /\ ~Truthy(Driver_get_result(key, tagset))
                  => GetAfter(key, tagset) = call'.value
      ]_vars

\* C24 amended: as above, but an immediately following get(key) returns
\* the result only when the result is truthy; a result that is falsy and
\* not undefined is stored, and get(key) resolves to its fallback.
C24_RememberStoresResult ==
    [][\A key \in CaKeys, tagset \in CaTagSets :
        CacheCalls("Cache.remember", key, tagset) =>
            /\ RememberReadsOrCalls(key, tagset)
            /\ (~Truthy(Driver_get_result(key, tagset)) /\ Truthy(call'.value))
                  => GetAfter(key, tagset) = call'.value
            /\ (~Truthy(Driver_get_result(key, tagset)) /\ ~Truthy(call'.value))
                  => GetAfter(key, tagset) = Undefined
      ]_vars

\* remember('k1', () => 0) has called func, stored 0 with the default TTL
\* and resolved to 0
C24_Witness ==
    /\ call.name = "Cache.remember"
    /\ call.value = Num(0)
    /\ call.ttl = 0
    /\ invoked = 1
    /\ ret.val = Num(0)
    /\ Driver_get_result(call.keys[1], call.tagset) = Num(0)
    /\ Driver_life_result(call.keys[1], call.tagset) = DefaultTtl

(***************************************************************************)
(* SpecPull: a facade over a driver of any of the three variants; put,     *)
(* flush and pull of one key, untagged or scoped to the TagSets A and A,B. *)
(* On the memcached variant callers may also put an empty array under      *)
(* "tags:A" and "tags:B".                                                  *)
(***************************************************************************)
PlKeys == {"k1"}
PlTagSets == {NoTagSet, TagA, TagAB}
PlValues == {Num(1), Str("abc")}
PlIndexKeys == {"tags:A", "tags:B"}

PlPut ==
    \E key \in PlKeys, value \in PlValues, tagset \in PlTagSets :
        /\ RosterHasRoom
        /\ Cache_put(key, value, 0, tagset)
        /\ UNCHANGED observers
        /\ UNCHANGED <<inflight, disposed, issued>>

PlPutArray ==
    \E key \in PlIndexKeys :
        /\ backend = "memcached"
        /\ Cache_put(key, Arr(<<>>), 0, NoTagSet)
        /\ UNCHANGED observers
        /\ UNCHANGED <<inflight, disposed, issued>>

PlFlush ==
    \E tagset \in PlTagSets :
        /\ Cache_flush(tagset)
        /\ UNCHANGED observers
        /\ UNCHANGED <<inflight, disposed, issued>>

PlPull ==
    \E key \in PlKeys, tagset \in PlTagSets :
        /\ Cache_pull(key, tagset)
        /\ UNCHANGED observers
        /\ UNCHANGED <<inflight, disposed, issued>>

NextPull ==
    \/ PlPut
    \/ PlPutArray
    \/ PlFlush
    \/ PlPull

SpecPull == InitDrivers /\ [][NextPull]_vars

(***************************************************************************)
(* Claims on Cache.pull (SpecPull).                                        *)
(***************************************************************************)
\* C25: Cache.pull(key) resolves to the value stored at key (absent if
\* none); once it has resolved has(key) is false and, within a tag-scoped
\* facade, no tag index of the facade's TagSet lists the reference of key.
C25_PullRemoves ==
    [][\A key \in PlKeys, tagset \in PlTagSets :
        CacheCalls("Cache.pull", key, tagset) =>
            /\ ret'.ok
            /\ ret'.val = Driver_get_result(key, tagset)
            /\ ~Driver_has_result(key, tagset) => LooseUndefined(ret'.val)
            /\ ~Driver_has_result(key, tagset)'
            /\ tagset.isTagSet =>
                  \A i \in 1..Len(tagset.keys) :
                      ref(tagset, key) \notin Driver_index_result(tagset.keys[i])'
      ]_vars

(***************************************************************************)
(* Claims on the TTL roster of the MemoryDriver (Spec).                    *)
(***************************************************************************)
\* the roster positions that count down the storage key x
RosterEntriesOf(roster, x) == {i \in 1..Len(roster) : roster[i].key = x}

\* C26: after MemoryDriver.forget(k, tagset?) the TTL roster holds no entry
\* for the forgotten storage key, however many times the key had been put
\* with a TTL, so that no countdown registered before the forget can evict
\* a value stored at that key afterwards.
C26_ForgetClearsRoster ==
    call.name = "forget" =>
        RosterEntriesOf(ttl, Resolve(call.keys[1], call.tagset)) = {}

(***************************************************************************)
(* SpecSweep: one MemoryDriver; untagged put and forget of two keys and    *)
(* the sweep.                                                              *)
(***************************************************************************)
SwKeys == Keys
SwValues == {Num(1)}

SwPut ==
    \E key \in SwKeys, value \in SwValues, t \in Ttls :
        /\ t # 0 => Len(ttl) < MaxRoster
        /\ Memory_put(key, value, t, NoTagSet)
        /\ UNCHANGED observers
        /\ UNCHANGED <<inflight, disposed, invoked, issued>>

SwForget ==
    \E key \in SwKeys :
        /\ Memory_forget(key, NoTagSet)
        /\ UNCHANGED observers
        /\ UNCHANGED <<inflight, disposed, invoked, issued>>

SwTick ==
    /\ ttl # <<>>
    /\ Memory_tick
    /\ UNCHANGED observers
    /\ UNCHANGED <<inflight, disposed, invoked, issued>>

NextSweep ==
    \/ SwPut
    \/ SwForget
    \/ SwTick

SpecSweep == Init /\ [][NextSweep]_vars

(***************************************************************************)
(* Claims on the sweep pass (SpecSweep).                                   *)
(***************************************************************************)
\* the roster entries that are not expired, in roster order
Live(roster) == SelectSeq(roster, LAMBDA e : e.ttl > 0)
\* the storage keys of the expired roster entries
ExpiredKeys(roster) == {roster[i].key : i \in {j \in 1..Len(roster) : roster[j].ttl <= 0}}
\* the roster entries of the other storage keys, in roster order
Others(roster, x) == SelectSeq(roster, LAMBDA e : e.key # x)

\* C27: a sweep tick handles every roster entry present at its start
\* exactly once: an entry with a positive counter stays, in order, with the
\* counter one lower; an entry with counter 0 is removed together with the
\* value at its key, and no other entry or value is removed; a forget
\* between ticks leaves the entries of the other keys and their counters
\* as they were.
C27_SweepMutationSafe ==
    [][/\ call'.name = "tick" =>
            /\ ttl' = [i \in 1..Len(Live(ttl)) |-> [Live(ttl)[i] EXCEPT !.ttl = @ - 1]]
            /\ memory' = [x \in DOMAIN memory \ ExpiredKeys(ttl) |-> memory[x]]
       /\ call'.name = "forget" =>
            /\ Others(ttl', call'.keys[1]) = Others(ttl, call'.keys[1])
            /\ Len(ttl') >= Len(ttl) - 1
      ]_vars

\* after a tick the roster holds the entry of k1 alone, counted down to 0
\* and not yet removed; k1 is still stored and k2 is not
C27_Witness ==
    /\ call.name = "tick"
    /\ ttl = <<[key |-> "k1", ttl |-> 0]>>
    /\ "k1" \in DOMAIN memory
    /\ "k2" \notin DOMAIN memory

(***************************************************************************)
(* Claims on eviction under a TagSet (SpecTags).                           *)
(***************************************************************************)
\* C28: when the sweep evicts the entry of key k under TagSet T, only the
\* value at ref(k) and its roster entry are removed: every tag index is
\* as it was before the tick, an index of T that listed ref(k) still lists
\* it, and has(k, T) and get(k, T) report the entry absent.
C28_EvictionDoesNotCascade ==
    [][call'.name = "tick" =>
        /\ \A T \in TagTagSets : IndexesOf(memory', T) = IndexesOf(memory, T)
        /\ DOMAIN memory \ DOMAIN memory' \subseteq ExpiredKeys(ttl)
        /\ \A key \in TagKeys, T \in TagTagSets :
              ref(T, key) \in ExpiredKeys(ttl) =>
                  /\ ~Memory_has_result(memory', key, T)
                  /\ Memory_get_result(memory', key, T) = Undefined
                  /\ RosterEntriesOf(ttl', ref(T, key))
                        = RosterEntriesOf(Live(ttl), ref(T, key))
                  /\ \A i \in 1..Len(T.keys) :
                        (/\ IsArray(Lookup(memory, T.keys[i]))
                         /\ Includes(Lookup(memory, T.keys[i]).a, ref(T, key)))
                        => Includes(Lookup(memory', T.keys[i]).a, ref(T, key))
      ]_vars

\* the sweep has evicted the entry of k1 under A,B: the value is absent,
\* the indexes tags:A and tags:B still list its reference
C28_Witness ==
    /\ call.name = "tick"
    /\ ~Memory_has_result(memory, "k1", TagAB)
    /\ IsArray(Lookup(memory, "tags:A"))
    /\ IsArray(Lookup(memory, "tags:B"))
    /\ Includes(Lookup(memory, "tags:A").a, ref(TagAB, "k1"))
    /\ Includes(Lookup(memory, "tags:B").a, ref(TagAB, "k1"))

(***************************************************************************)
(* SpecIndex: one MemoryDriver; tag-scoped put, putMany, forever, forget   *)
(* and flush of two keys under the TagSets A,A and A,B, without TTL.       *)
(***************************************************************************)
IxKeys == Keys
TagAA == TagSet(<<"A", "A">>)
IxTagSets == {TagAA, TagAB}
IxValues == {Num(1)}
IxArrays == {<<[key |-> "k1", value |-> Num(1)], [key |-> "k2", value |-> Num(1)]>>,
             <<[key |-> "k1", value |-> Num(1)], [key |-> "k1", value |-> Str("abc")]>>}
IxIndexKeys == {"tags:A", "tags:B"}

IxPut ==
    \E key \in IxKeys, value \in IxValues, tagset \in IxTagSets :
        /\ Memory_put(key, value, 0, tagset)
        /\ UNCHANGED observers
        /\ UNCHANGED <<inflight, disposed, invoked, issued>>

IxPutMany ==
    \E array \in IxArrays, tagset \in IxTagSets :
        /\ Memory_putMany(array, 0, tagset)
        /\ UNCHANGED observers
        /\ UNCHANGED <<inflight, disposed, invoked, issued>>

IxForever ==
    \E key \in IxKeys, value \in IxValues, tagset \in IxTagSets :
        /\ Memory_forever(key, value, tagset)
        /\ UNCHANGED observers
        /\ UNCHANGED <<inflight, disposed, invoked, issued>>

IxForget ==
    \E key \in IxKeys, tagset \in IxTagSets :
        /\ Memory_forget(key, tagset)
        /\ UNCHANGED observers
        /\ UNCHANGED <<inflight, disposed, invoked, issued>>

IxFlush ==
    \E tagset \in IxTagSets :
        /\ Memory_flush(tagset)
        /\ UNCHANGED observers
        /\ UNCHANGED <<inflight, disposed, invoked, issued>>

NextIndex ==
    \/ IxPut
    \/ IxPutMany
    \/ IxForever
    \/ IxForget
    \/ IxFlush

SpecIndex == Init /\ [][NextIndex]_vars

(***************************************************************************)
(* Claims on the tag indexes of the MemoryDriver (SpecIndex).              *)
(***************************************************************************)
\* C29: in every reachable state of the MemoryDriver, after any sequence of
\* tag-scoped put, putMany, forever, forget and flush calls, repeated puts
\* of one key and TagSets that repeat a tag name included, no tag index
\* lists the same reference key twice.
C29_IndexDuplicateFree ==
    \A k \in IxIndexKeys :
        IsArray(Lookup(memory, k)) =>
            \A i, j \in 1..Len(memory[k].a) :
                memory[k].a[i] = memory[k].a[j] => i = j

\* a putMany of k1 twice under A,A has run while tags:A already listed the
\* reference under A,B: tags:A lists the two references, each once
C29_Witness ==
    /\ call.name = "putMany"
    /\ call.keys = <<"k1", "k1">>
    /\ call.tagset = TagAA
    /\ IsArray(Lookup(memory, "tags:A"))
    /\ Lookup(memory, "tags:A").a = <<ref(TagAB, "k1"), ref(TagAA, "k1")>>

(***************************************************************************)
(* SpecCount: one MemoryDriver; put of a number at one key, untagged or    *)
(* under the tag A, with TTL 0..MaxTtl, increment, decrement and the       *)
(* sweep.                                                                  *)
(***************************************************************************)
CtKeys == {"k1"}
CtTagSets == {NoTagSet, TagA}
CtValues == {Num(1)}
CtAmounts == {1, 2}

\* the stored value is absent or a number within the bound
CtCountable(key, tagset) ==
    LET value == Memory_get_result(memory, key, tagset)
    IN  \/ value = Undefined
        \/ value.d = 0 /\ value.t = "number" /\ value.n < MaxNum /\ value.n > 0 - MaxNum

CtPut ==
    \E key \in CtKeys, value \in CtValues, t \in Ttls, tagset \in CtTagSets :
        /\ t # 0 => Len(ttl) < MaxTagRoster
        /\ Memory_put(key, value, t, tagset)
        /\ UNCHANGED observers
        /\ UNCHANGED <<inflight, disposed, invoked, issued>>

CtIncrement ==
    \E key \in CtKeys, amount \in CtAmounts, tagset \in CtTagSets :
        /\ CtCountable(key, tagset)
        /\ Memory_increment(key, amount, tagset)
        /\ UNCHANGED observers
        /\ UNCHANGED <<inflight, disposed, invoked, issued>>

CtDecrement ==
    \E key \in CtKeys, amount \in CtAmounts, tagset \in CtTagSets :
        /\ CtCountable(key, tagset)
        /\ Memory_decrement(key, amount, tagset)
        /\ UNCHANGED observers
        /\ UNCHANGED <<inflight, disposed, invoked, issued>>

CtTick ==
    /\ ttl # <<>>
    /\ Memory_tick
    /\ UNCHANGED observers
    /\ UNCHANGED <<inflight, disposed, invoked, issued>>

NextCount ==
    \/ CtPut
    \/ CtIncrement
    \/ CtDecrement
    \/ CtTick

SpecCount == Init /\ [][NextCount]_vars

(***************************************************************************)
(* Claims on increment and decrement of the MemoryDriver (SpecCount).      *)
(***************************************************************************)
\* C30: a successful increment or decrement of the MemoryDriver leaves the
\* TTL roster unchanged and changes only the value stored at the key: an
\* entry with a running countdown is evicted by the same tick as it would
\* have been without the call.
C30_IncrementKeepsRoster ==
    [][\A key \in CtKeys, tagset \in CtTagSets :
        (/\ call'.name \in {"increment", "decrement"}
         /\ call'.keys = <<key>>
         /\ call'.tagset = tagset
         /\ ret'.ok)
        => /\ ttl' = ttl
           /\ DOMAIN memory' = DOMAIN memory
           /\ \A x \in DOMAIN memory : x # Resolve(key, tagset) => memory'[x] = memory[x]
           /\ Memory_get_result(memory', key, tagset) = ret'.val
           /\ \A n \in 0..MaxTicks :
                 Memory_has_result(Memory_ticks(memory', ttl', n).memory, key, tagset)
                     = Memory_has_result(Memory_ticks(memory, ttl, n).memory, key, tagset)
      ]_vars

\* an increment has succeeded on a key whose countdown is running: the
\* roster still holds the entry
C30_Witness ==
    /\ call.name = "increment"
    /\ ret.ok
    /\ RosterEntriesOf(ttl, Resolve(call.keys[1], call.tagset)) # {}
    /\ Memory_get_result(memory, call.keys[1], call.tagset) = Num(2)

(***************************************************************************)
(* Backends that report errors.  A handler of the Redis or Memcached       *)
(* driver issues its backend commands in stages: the commands of a stage   *)
(* are issued together, the next stage is issued from the then-callback of *)
(* the stage before.  faults is the set of positions, in issue order, of   *)
(* the commands whose callback receives an error; a command that reports   *)
(* an error has not been applied by the server.                            *)
(***************************************************************************)
Command(cmd, key, val, life) ==
    [cmd |-> cmd, key |-> key, val |-> val, life |-> life, ok |-> TRUE]

\* the error the command issued at position pos reports
Err(pos) == "error of command " \o ToString(pos)

\* the commands of a stage issued after pos commands, with their outcome
Marked(stage, pos, faults) ==
    [i \in 1..Len(stage) |-> [stage[i] EXCEPT !.ok = (pos + i) \notin faults]]

\* the memcached server applies the commands of a stage that succeed
RECURSIVE Memcached_apply(_, _)
Memcached_apply(store, cmds) ==
    IF Len(cmds) = 0 THEN store
    ELSE LET c == cmds[1]
             next == IF ~c.ok THEN store
                     ELSE IF c.cmd = "set" THEN Memcached_set(store, c.key, c.val, c.life)
                     ELSE IF c.cmd = "del" THEN StoreDel(store, c.key)
                     ELSE store
         IN  Memcached_apply(next, Tail(cmds))

\* mutant: the next stage is issued whatever the stage before reported
Chain_continues_Always(stage) == TRUE

\* .then(...) runs when every promise of the stage is fulfilled; a
\* rejection goes to .catch(reject)
Chain_continues(stage) == \A i \in 1..Len(stage) : stage[i].ok

\* get and has: memcached.get(key)
Memcached_read_run(store, key, tagset, faults) ==
    [store |-> store,
     issued |-> Marked(<<Command("get", Resolve(key, tagset), Undefined, 0)>>, 0, faults)]

\* put: memcached.set; under a TagSet getMulti, then one set per value
\* found, then the set of the value at ref
Memcached_put_run(store, key, value, t, tagset, faults) ==
    IF ~tagset.isTagSet
    THEN LET s == Marked(<<Command("set", key, value, t)>>, 0, faults)
         IN  [store |-> Memcached_apply(store, s), issued |-> s]
    ELSE LET r == ref(tagset, key)
             values == Memcached_getMany_result(store, tagset.keys, NoTagSet)
             s1 == Marked(<<Command("getMulti", Join(tagset.keys, ","), Undefined, 0)>>,
                          0, faults)
             s2 == Marked([i \in 1..Len(values) |->
                              Command("set", tagset.keys[i],
                                      IF IsArray(values[i])
                                      THEN Arr(Distinct(Append(values[i].a, r)))
                                      ELSE Arr(<<r>>),
                                      t)],
                          1, faults)
             s3 == Marked(<<Command("set", r, value, t)>>, 1 + Len(values), faults)
             store2 == Memcached_apply(store, s2)
         IN  IF ~Chain_continues(s1) THEN [store |-> store, issued |-> s1]
             ELSE IF ~Chain_continues(s2) THEN [store |-> store2, issued |-> s1 \o s2]
             ELSE [store |-> Memcached_apply(store2, s3), issued |-> s1 \o s2 \o s3]

\* forget: memcached.del; under a TagSet getMulti, then one del or set per
\* value found, then the del of ref
Memcached_forget_run(store, key, tagset, faults) ==
    IF ~tagset.isTagSet
    THEN LET s == Marked(<<Command("del", key, Undefined, 0)>>, 0, faults)
         IN  [store |-> Memcached_apply(store, s), issued |-> s]
    ELSE LET r == ref(tagset, key)
             values == Memcached_getMany_result(store, tagset.keys, NoTagSet)
             s1 == Marked(<<Command("getMulti", Join(tagset.keys, ","), Undefined, 0)>>,
                          0, faults)
             s2 == Marked([i \in 1..Len(values) |->
                              LET rest == Without(Distinct(values[i].a), r)
                              IN  IF IsArray(values[i]) /\ Len(rest) # 0
                                  THEN Command("set", tagset.keys[i], Arr(rest), 0)
                                  ELSE Command("del", tagset.keys[i], Undefined, 0)],
                          1, faults)
             s3 == Marked(<<Command("del", r, Undefined, 0)>>, 1 + Len(values), faults)
             store2 == Memcached_apply(store, s2)
         IN  IF ~Chain_continues(s1) THEN [store |-> store, issued |-> s1]
             ELSE IF ~Chain_continues(s2) THEN [store |-> store2, issued |-> s1 \o s2]
             ELSE [store |-> Memcached_apply(store2, s3), issued |-> s1 \o s2 \o s3]

\* the RedisDriver issues one command per call: GET, EXISTS, SET EX or DEL,
\* or the EXEC of the MULTI it has queued under a TagSet
Redis_run(store, op, key, value, t, tagset, faults) ==
    LET cmd == CASE op = "get" -> "get"
                 [] op = "has" -> "exists"
                 [] op = "put" -> IF tagset.isTagSet THEN "exec" ELSE "set"
                 [] op = "forget" -> IF tagset.isTagSet THEN "exec" ELSE "del"
        s == Marked(<<Command(cmd, Resolve(key, tagset), value, t)>>, 0, faults)
    IN  [store |-> IF ~s[1].ok THEN store
                   ELSE IF op = "put" THEN Redis_put_store(store, key, value, t, tagset)
                   ELSE IF op = "forget" THEN Redis_forget_store(store, key, tagset)
                   ELSE store,
         issued |-> s]

\* the run of op on the driver in use
Faulty_run(op, key, value, t, tagset, faults) ==
    IF backend = "redis" THEN Redis_run(redis, op, key, value, t, tagset, faults)
    ELSE IF op = "put" THEN Memcached_put_run(memcached, key, value, t, tagset, faults)
    ELSE IF op = "forget" THEN Memcached_forget_run(memcached, key, tagset, faults)
    ELSE Memcached_read_run(memcached, key, tagset, faults)

\* a call of get, has, put or forget: the promise resolves when no command
\* issued reported an error, and rejects with the error of one that did
Faulty_call(op, key, value, t, tagset, faults) ==
    LET run == Faulty_run(op, key, value, t, tagset, faults)
        failed == {i \in 1..Len(run.issued) : ~run.issued[i].ok}
    IN  /\ backend \in {"redis", "memcached"}
        /\ issued' = run.issued
        /\ redis' = IF backend = "redis" THEN run.store ELSE redis
        /\ memcached' = IF backend = "memcached" THEN run.store ELSE memcached
        /\ call' = Call(op, <<key>>, value, t, 0, tagset)
        /\ IF failed = {}
           THEN ret' = Resolved(CASE op = "get" -> Driver_get_result(key, tagset)
                                  [] op = "has" -> Bool(Driver_has_result(key, tagset))
                                  [] OTHER -> Undefined)
           ELSE \E i \in failed : ret' = Rejected(Err(i))
        /\ UNCHANGED <<backend, memory, ttl, timer>>

(***************************************************************************)
(* SpecFaults: a Redis or Memcached driver whose backend may report        *)
(* errors; get, has, put and forget of one key, untagged or under the      *)
(* TagSet A,B, at most MaxFaults commands of a call failing.  On the       *)
(* memcached variant callers may also put an empty array under "tags:A"    *)
(* and "tags:B".                                                           *)
(***************************************************************************)
MaxFaults == 1
FtKeys == {"k1"}
FtTagSets == {NoTagSet, TagAB}
FtValues == {Num(1)}
FtIndexKeys == {"tags:A", "tags:B"}
FtOps == {"get", "has", "put", "forget"}
\* a call issues at most getMulti, one command per tag name and one more;
\* a plan names commands the call issues when none of them fails
FtPlans == {F \in SUBSET (1..(Len(TagAB.keys) + 2)) : Cardinality(F) <= MaxFaults}

FtCall ==
    \E op \in FtOps, key \in FtKeys, value \in FtValues, tagset \in FtTagSets,
       faults \in FtPlans :
        /\ backend \in {"redis", "memcached"}
        /\ faults \subseteq 1..Len(Faulty_run(op, key, value, 1, tagset, {}).issued)
        /\ Faulty_call(op, key, IF op = "put" THEN value ELSE Undefined,
                       IF op = "put" THEN 1 ELSE 0, tagset, faults)
        /\ UNCHANGED observers
        /\ UNCHANGED <<inflight, disposed, invoked>>

FtPutArray ==
    \E key \in FtIndexKeys :
        /\ backend = "memcached"
        /\ Faulty_call("put", key, Arr(<<>>), 0, NoTagSet, {})
        /\ UNCHANGED observers
        /\ UNCHANGED <<inflight, disposed, invoked>>

NextFaults ==
    \/ FtCall
    \/ FtPutArray

SpecFaults == InitDrivers /\ [][NextFaults]_vars

\* the positions of the commands of the last call that reported an error
FailedAt(log) == {i \in 1..Len(log) : ~log[i].ok}

\* a run without faults leaves the store the handler leaves
FaultFreeRunsAgree ==
    [][(backend' = "memcached" /\ FailedAt(issued') = {}) =>
          /\ call'.name = "put" =>
                memcached' = Memcached_put_store(memcached, call'.keys[1], call'.value,
                                                 call'.ttl, call'.tagset)
          /\ call'.name = "forget" =>
                memcached' = Memcached_forget_store(memcached, call'.keys[1], call'.tagset)]_vars

\* C31: a MemcachedDriver put under a TagSet issues the set of the value at
\* ref(key) last, and only when getMulti and every index set of the put
\* have succeeded; when a command reports an error the promise rejects with
\* the error of a failed command, no command of a later stage is issued,
\* nothing is deleted, and every index set that succeeded stays written.
C31_PutOrderedUncompensated ==
    [][(backend' = "memcached" /\ call'.name = "put" /\ call'.tagset.isTagSet) =>
          LET r == ref(call'.tagset, call'.keys[1])
              n == Len(issued')
              failed == FailedAt(issued')
          IN  /\ n >= 1 /\ issued'[1].cmd = "getMulti"
              /\ \A i \in 1..n :
                    (issued'[i].cmd = "set" /\ issued'[i].key = r) =>
                        /\ i = n
                        /\ \A j \in 1..(i - 1) : issued'[j].ok
              /\ \A i \in 1..n : issued'[i].cmd # "del"
              /\ failed = {} =>
                    /\ ret'.ok
                    /\ issued'[n].cmd = "set" /\ issued'[n].key = r
                    /\ deserialize(StoreGet(memcached', r)) = call'.value
              /\ failed # {} =>
                    /\ ~ret'.ok
                    /\ \E i \in failed : ret'.err = Err(i)
                    /\ ~issued'[1].ok => n = 1 /\ memcached' = memcached
                    /\ \A i \in 1..n : ~(issued'[i].cmd = "set" /\ issued'[i].key = r /\ issued'[i].ok)
                    /\ StoreHas(memcached', r) = StoreHas(memcached, r)
                    /\ StoreGet(memcached', r) = StoreGet(memcached, r)
                    /\ \A i \in 1..n :
                          (issued'[i].ok /\ issued'[i].cmd = "set") =>
                              deserialize(StoreGet(memcached', issued'[i].key)) = issued'[i].val]_vars

\* a put under A,B was rejected after an index set had succeeded: an index
\* lists ref(k1) and nothing is stored at ref(k1)
C31_Witness ==
    /\ backend = "memcached"
    /\ call.name = "put" /\ call.tagset = TagAB
    /\ ~ret.ok
    /\ \E i \in 1..Len(issued) : issued[i].ok /\ issued[i].cmd = "set"
    /\ \E x \in FtIndexKeys :
          LET array == deserialize(StoreGet(memcached, x))
          IN  IsArray(array) /\ \E j \in 1..Len(array.a) : array.a[j] = ref(TagAB, "k1")
    /\ ~StoreHas(memcached, ref(TagAB, "k1"))

\* the handlers that issue one backend command
SingleCommand ==
    \/ backend = "redis"
    \/ ~call.tagset.isTagSet
    \/ call.name \in {"get", "has"}

RECURSIVE Memcached_putMany_store(_, _, _, _)
Memcached_putMany_store(store, array, t, tagset) ==
    IF Len(array) = 0 THEN store
    ELSE Memcached_putMany_store(
             Memcached_put_store(store, array[1].key, array[1].value, t, tagset),
             Tail(array), t, tagset)

\* what driver.putMany of the driver in use does to the stores
Driver_putMany_stores(array, t, tagset) ==
    /\ memory' = IF backend = "memory"
                 THEN Memory_putMany_result(memory, ttl, array, t, tagset).memory
                 ELSE memory
    /\ ttl' = IF backend = "memory"
              THEN Memory_putMany_result(memory, ttl, array, t, tagset).ttl ELSE ttl
    /\ memcached' = IF backend = "memcached"
                    THEN Memcached_putMany_store(memcached, array, t, tagset)
                    ELSE memcached
    /\ redis' = IF backend = "redis"
                THEN Redis_putMany_store(redis, array, t, tagset) ELSE redis

\* put(key, value, ttl) with Array.isArray(key): driver.putMany(key, value,
\* this.tagset); the second argument is handed on as the ttl (0 when it is
\* left out) and the third is not read
Cache_putMany(array, value, t, tagset) ==
    /\ Driver_putMany_stores(array, value, tagset)
    /\ call' = Call("Cache.put", [i \in 1..Len(array) |-> array[i].key],
                    Undefined, value, 0, tagset)
    /\ ret' = Resolved(Undefined)
    /\ invoked' = 0
    /\ UNCHANGED <<backend, timer>>

(***************************************************************************)
(* SpecBatch: a facade over a driver of any of the three variants; put of  *)
(* one key and of an array of entries, with and without a ttl, untagged or *)
(* under the TagSet A, and forget.                                         *)
(***************************************************************************)
BtKeys == Keys
BtTagSets == {NoTagSet, TagA}
BtValues == {Num(1)}
BtTtls == 0..MaxTtl
BtArrays == {<<[key |-> "k1", value |-> Num(1)]>>,
             <<[key |-> "k1", value |-> Num(1)], [key |-> "k2", value |-> Num(1)]>>}

\* the TTL roster of the MemoryDriver has room for n more entries
BtRoom(n) == backend = "memory" => Len(ttl) + n <= MaxRoster

BtPut ==
    \E key \in BtKeys, value \in BtValues, t \in BtTtls, tagset \in BtTagSets :
        /\ BtRoom(1)
        /\ Cache_put(key, value, t, tagset)
        /\ UNCHANGED observers
        /\ UNCHANGED <<inflight, disposed, issued>>

BtPutMany ==
    \E array \in BtArrays, t \in BtTtls, tagset \in BtTagSets :
        /\ BtRoom(Len(array))
        /\ Cache_putMany(array, t, 0, tagset)
        /\ UNCHANGED observers
        /\ UNCHANGED <<inflight, disposed, issued>>

BtForget ==
    \E key \in BtKeys, tagset \in BtTagSets :
        /\ Cache_forget(key, tagset)
        /\ UNCHANGED observers
        /\ UNCHANGED <<inflight, disposed, issued>>

NextBatch ==
    \/ BtPut
    \/ BtPutMany
    \/ BtForget

SpecBatch == InitDrivers /\ [][NextBatch]_vars

\* C33: after Cache.put, in the single-key form and in the array form, every
\* entry of the call is held by the driver, under the facade's TagSet, with
\* the ttl the caller gave or, when none was given, with the default ttl of
\* the facade.
C33_PutAppliesDefaultTtl ==
    call.name = "Cache.put" =>
        \A i \in 1..Len(call.keys) :
            /\ Driver_has_result(call.keys[i], call.tagset)
            /\ Driver_life_result(call.keys[i], call.tagset) = Cache_ttl(call.ttl)

\* the single-key form alone
C33_SingleKeyForm ==
    (call.name = "Cache.put" /\ call.value # Undefined) =>
        /\ Driver_has_result(call.keys[1], call.tagset)
        /\ Driver_life_result(call.keys[1], call.tagset) = Cache_ttl(call.ttl)

\* the array form with a ttl
C33_ArrayFormWithTtl ==
    (call.name = "Cache.put" /\ call.value = Undefined /\ call.ttl # 0) =>
        \A i \in 1..Len(call.keys) :
            /\ Driver_has_result(call.keys[i], call.tagset)
            /\ Driver_life_result(call.keys[i], call.tagset) = call.ttl

(***************************************************************************)
(* SpecComplete: one MemoryDriver; tag-scoped put, putMany, forever,       *)
(* forget and flush of one key under the TagSets A and A,B, with and       *)
(* without TTL, and the sweep.                                             *)
(***************************************************************************)
CpKeys == {"k1"}
CpTagSets == {TagA, TagAB}
CpValues == {Num(1)}
CpTtls == {0, 1}
CpArrays == {<<[key |-> "k1", value |-> Num(1)], [key |-> "k1", value |-> Str("abc")]>>}

CpPut ==
    \E key \in CpKeys, value \in CpValues, t \in CpTtls, tagset \in CpTagSets :
        /\ t # 0 => Len(ttl) < MaxRoster
        /\ Memory_put(key, value, t, tagset)
        /\ UNCHANGED observers
        /\ UNCHANGED <<inflight, disposed, invoked, issued>>

CpPutMany ==
    \E array \in CpArrays, t \in CpTtls, tagset \in CpTagSets :
        /\ t # 0 => Len(ttl) + Len(array) <= MaxRoster
        /\ Memory_putMany(array, t, tagset)
        /\ UNCHANGED observers
        /\ UNCHANGED <<inflight, disposed, invoked, issued>>

CpForever ==
    \E key \in CpKeys, value \in CpValues, tagset \in CpTagSets :
        /\ Memory_forever(key, value, tagset)
        /\ UNCHANGED observers
        /\ UNCHANGED <<inflight, disposed, invoked, issued>>

CpForget ==
    \E key \in CpKeys, tagset \in CpTagSets :
        /\ Memory_forget(key, tagset)
        /\ UNCHANGED observers
        /\ UNCHANGED <<inflight, disposed, invoked, issued>>

CpFlush ==
    \E tagset \in CpTagSets :
        /\ Memory_flush(tagset)
        /\ UNCHANGED observers
        /\ UNCHANGED <<inflight, disposed, invoked, issued>>

CpTick ==
    /\ ttl # <<>>
    /\ Memory_tick
    /\ UNCHANGED observers
    /\ UNCHANGED <<inflight, disposed, invoked, issued>>

NextComplete ==
    \/ CpPut
    \/ CpPutMany
    \/ CpForever
    \/ CpForget
    \/ CpFlush
    \/ CpTick

SpecComplete == Init /\ [][NextComplete]_vars

\* the tag index k lists the reference key r
Lists(k, r) == IsArray(Lookup(memory, k)) /\ Includes(memory[k].a, r)

\* C34: in every reachable state of the MemoryDriver, under any sequence of
\* tag-scoped put, putMany, forever, forget and flush calls and sweep ticks,
\* every reference key that holds a value is listed in every tag index of
\* the TagSet it was stored under.
C34_IndexComplete ==
    \A tagset \in CpTagSets, key \in CpKeys :
        ref(tagset, key) \in DOMAIN memory =>
            \A i \in 1..Len(tagset.keys) : Lists(tagset.keys[i], ref(tagset, key))

\* ref(k1) under A,B holds a value and both indexes list it, while tags:A
\* also lists the reference key of k1 under A, which holds no value, and
\* the roster is not empty
C34_Witness ==
    /\ ref(TagAB, "k1") \in DOMAIN memory
    /\ Lists("tags:A", ref(TagAB, "k1")) /\ Lists("tags:B", ref(TagAB, "k1"))
    /\ Lists("tags:A", ref(TagA, "k1")) /\ ref(TagA, "k1") \notin DOMAIN memory
    /\ ttl # <<>>

(***************************************************************************)
(* Lifetime of the tag indexes of the MemcachedDriver (SpecMemcached).     *)
(***************************************************************************)
\* in store every reference key that holds a value is listed in each tag
\* index of its TagSet, and no such index expires before the value
IndexesOutlive(store) ==
    \A tagset \in McTagSets, key \in McKeys :
        LET r == ref(tagset, key) IN
        StoreHas(store, r) =>
            \A i \in 1..Len(tagset.keys) :
                LET k == tagset.keys[i] IN
                /\ StoreHas(store, k)
                /\ IsArray(deserialize(StoreGet(store, k)))
                /\ Includes(deserialize(StoreGet(store, k)).a, r)
                /\ \/ store[k].life = 0
                   \/ store[r].life # 0 /\ store[k].life >= store[r].life

\* C35: a tag-scoped put on a MemcachedDriver whose tag indexes all exist,
\* list every stored reference key and outlive the values they list leaves
\* them so: no tag index expires before an unexpired value it references.
C35_PutKeepsIndexAlive ==
    [][(/\ call'.name = "put" /\ call'.tagset.isTagSet
        /\ \A i \in 1..Len(call'.tagset.keys) : StoreHas(memcached, call'.tagset.keys[i])
        /\ IndexesOutlive(memcached))
       => IndexesOutlive(memcached')]_vars

\* the claim over the runs that consist of tag-scoped puts under one TagSet
\* and of the passing of time
C35_PutsOnly ==
    history.pure => IndexesOutlive(memcached)

(***************************************************************************)
(* MemcachedDriver.flush under a TagSet, backend command by backend        *)
(* command: getMany of the tag indexes, then for every value found the     *)
(* forget of the index key and of the keys the value lists.                *)
(***************************************************************************)
\* this.getMany(tagset.keys): the values are kept for the steps that follow
Memcached_flush_getMany(c, tagset) ==
    /\ backend = "memcached"
    /\ tagset.isTagSet
    /\ inflight[c].pc = "idle"
    /\ inflight' = [inflight EXCEPT ![c] =
            Flight("flush.map", "", Undefined, 0, 0, tagset,
                   Memcached_getMany_result(memcached, tagset.keys, NoTagSet), 1)]
    /\ UNCHANGED <<backend, memory, ttl, timer, memcached, redis, call, ret>>

\* the mapper of Promise.map at one position: forget(tagset.keys[index]) and
\* the forget of every key the value read at the start lists
Memcached_flush_map(c) ==
    LET f == inflight[c]
        s1 == StoreDel(memcached, f.tagset.keys[f.index])
    IN  /\ backend = "memcached"
        /\ f.pc = "flush.map"
        /\ f.index <= Len(f.values)
        /\ memcached' = IF IsArray(f.values[f.index])
                        THEN StoreDelAll(s1, f.values[f.index].a) ELSE s1
        /\ inflight' = [inflight EXCEPT ![c].index = @ + 1]
        /\ UNCHANGED <<backend, memory, ttl, timer, redis, call, ret>>

\* .then(resolve): the promise of flush resolves
Memcached_flush_done(c) ==
    LET f == inflight[c] IN
    /\ backend = "memcached"
    /\ f.pc = "flush.map"
    /\ f.index > Len(f.values)
    /\ inflight' = [inflight EXCEPT ![c].pc = "flush.done"]
    /\ call' = Call("flush", <<>>, Undefined, 0, 0, f.tagset)
    /\ ret' = Resolved(Undefined)
    /\ UNCHANGED <<backend, memory, ttl, timer, memcached, redis>>

(***************************************************************************)
(* SpecFlushRace: one MemcachedDriver and two callers, each invoking one   *)
(* tag-scoped put or one tag-scoped flush; the backend commands of the two *)
(* handlers interleave.  Before either call, arrays may be stored under    *)
(* "tags:A" and "tags:B".                                                  *)
(***************************************************************************)
FrKeys == Keys
FrTagSets == {TagA, TagAB}
FrValues == {Num(1)}

FrPutArray ==
    \E key \in McIndexKeys, value \in McArrays :
        /\ \A c \in Callers : inflight[c].pc = "idle"
        /\ Memcached_put(key, value, 0, NoTagSet)
        /\ UNCHANGED observers
        /\ UNCHANGED <<inflight, disposed, invoked, issued>>

FrPutGetMany ==
    \E c \in Callers, key \in FrKeys, value \in FrValues, tagset \in FrTagSets :
        /\ Memcached_put_getMany(c, key, value, 0, tagset)
        /\ UNCHANGED observers
        /\ UNCHANGED <<disposed, invoked, issued>>

FrPutMap ==
    \E c \in Callers :
        /\ Memcached_put_map(c)
        /\ UNCHANGED observers
        /\ UNCHANGED <<disposed, invoked, issued>>

FrPutRef ==
    \E c \in Callers :
        /\ Memcached_put_ref(c)
        /\ UNCHANGED observers
        /\ UNCHANGED <<disposed, invoked, issued>>

FrFlushGetMany ==
    \E c \in Callers, tagset \in FrTagSets :
        /\ Memcached_flush_getMany(c, tagset)
        /\ UNCHANGED observers
        /\ UNCHANGED <<disposed, invoked, issued>>

FrFlushMap ==
    \E c \in Callers :
        /\ Memcached_flush_map(c)
        /\ UNCHANGED observers
        /\ UNCHANGED <<disposed, invoked, issued>>

FrFlushDone ==
    \E c \in Callers :
        /\ Memcached_flush_done(c)
        /\ UNCHANGED observers
        /\ UNCHANGED <<disposed, invoked, issued>>

NextFlushRace ==
    \/ FrPutArray
    \/ FrPutGetMany
    \/ FrPutMap
    \/ FrPutRef
    \/ FrFlushGetMany
    \/ FrFlushMap
    \/ FrFlushDone

SpecFlushRace == InitMemcached /\ [][NextFlushRace]_vars

\* C36: once a flush(T) and a put(k, v, ttl, T) of two callers of a
\* MemcachedDriver have both completed, the put having found every tag
\* index of T, either get(k, T) is absent or every tag index of T lists
\* ref(k): no stored value is left without a tag index that references it.
C36_FlushPutLeavesNoOrphan ==
    \A c, d \in Callers :
        (/\ inflight[c].pc = "put.done"
         /\ inflight[d].pc = "flush.done"
         /\ inflight[c].tagset = inflight[d].tagset
         /\ Len(inflight[c].values) = Len(inflight[c].tagset.keys))
        => \/ ~Memcached_has_result(memcached, inflight[c].key, inflight[c].tagset)
           \/ \A i \in 1..Len(inflight[c].tagset.keys) :
                 LET index == Memcached_get_result(
                                  memcached, inflight[c].tagset.keys[i], NoTagSet)
                 IN  /\ IsArray(index)
                     /\ Includes(index.a, ref(inflight[c].tagset, inflight[c].key))

====
